---------------------------- MODULE Spec2Model ----------------------------
(***************************************************************************)
(* A model of the smart-farm-AI groundwater pipeline:                      *)
(*   - model.py / predict.py : forecast selection (ARIMA, linear fallback) *)
(*   - forecast_from_snapshot.py / api_server.py : scenario projection     *)
(*   - process_data.py : normalisation of raw tables                       *)
(*                                                                         *)
(* Floating point numbers are modelled as exact rationals plus the IEEE    *)
(* specials NaN, +inf, -inf and Python's None; rounding is not modelled.   *)
(***************************************************************************)
EXTENDS Integers, Sequences, FiniteSets, TLC

VARIABLES
    call,       \* the last call of model.choose_forecast: input and outcome
    df,         \* the cleaned table predict.main reads
    csvFiles,   \* forecast CSV files written by predict.forecast_state
    plotFiles,  \* plot files written by predict.forecast_state
    mainOut,    \* what the last run of predict.main did
    snap,       \* the single-year snapshot table, one row per state
    proj,       \* the last direct call of the scenario projector
    apiResp,    \* the last response of GET /api/forecast
    snapOut,    \* what the last run of forecast_from_snapshot.py wrote
    rawDir,     \* the files of the raw directory process_data.py reads
    processed,  \* what the last run of process_data.process_all did
    findCall,   \* the last direct call of ingest_csv.find_column
    csvIn,      \* the snapshot CSV ingest_csv.py is run on
    db,         \* the tables of the SQLite database
    ingested,   \* what the last run of ingest_csv.ingest did
    normCall,   \* two calls of process_data.try_make_long on one frame
    fetch,      \* the last run of fetch_opencity.fetch_from_page
    served      \* the last request to serve_forecasts.api_forecast

vars == <<call, df, csvFiles, plotFiles, mainOut, snap, proj, apiResp, snapOut,
          rawDir, processed, findCall, csvIn, db, ingested, normCall, fetch,
          served>>

\* a component that has not run
Idle == [phase |-> "none"]

-----------------------------------------------------------------------------
(* Bounds of the model *)

MaxLen == 3
MaxPeriods == 2
MaxRows == 3

\* F applied to the value of v, with v evaluated once
Bind(v, F(_)) == CHOOSE r \in {F(x) : x \in {v}} : TRUE

-----------------------------------------------------------------------------
(* Floats: a finite value is the rational n/d in lowest terms, d > 0. *)

Abs(x) == IF x < 0 THEN -x ELSE x

RECURSIVE GCD(_, _)
GCD(a, b) == IF b = 0 THEN a ELSE GCD(b, a % b)

Fin(n, d) ==
    LET s == IF d < 0 THEN -1 ELSE 1
        g == GCD(Abs(n), Abs(d))
    IN  [k |-> "fin", n |-> (s * n) \div g, d |-> (s * d) \div g]

R(i) == [k |-> "fin", n |-> i, d |-> 1]
NaN == [k |-> "nan", n |-> 0, d |-> 1]
PosInf == [k |-> "inf", n |-> 1, d |-> 1]
NegInf == [k |-> "inf", n |-> -1, d |-> 1]
None == [k |-> "none", n |-> 0, d |-> 1]

IsNaN(x) == x.k = "nan"
IsFinite(x) == x.k = "fin"
Sign(x) == IF x.n > 0 THEN 1 ELSE IF x.n < 0 THEN -1 ELSE 0

FAdd(x, y) ==
    IF IsNaN(x) \/ IsNaN(y) THEN NaN
    ELSE IF x.k = "inf" /\ y.k = "inf" THEN (IF x.n = y.n THEN x ELSE NaN)
    ELSE IF x.k = "inf" THEN x
    ELSE IF y.k = "inf" THEN y
    ELSE LET g == GCD(x.d, y.d)
         IN  Fin(x.n * (y.d \div g) + y.n * (x.d \div g), (x.d \div g) * y.d)

FMul(x, y) ==
    IF IsNaN(x) \/ IsNaN(y) THEN NaN
    ELSE IF x.k = "inf" \/ y.k = "inf"
         THEN (IF Sign(x) * Sign(y) = 0 THEN NaN
               ELSE IF Sign(x) * Sign(y) > 0 THEN PosInf ELSE NegInf)
    ELSE Fin(x.n * y.n, x.d * y.d)

FNeg(x) == IF x.k = "nan" THEN x ELSE [x EXCEPT !.n = -x.n]
FSub(x, y) == FAdd(x, FNeg(y))

\* division of finite values, y # 0
FDiv(x, y) == Fin(x.n * y.d, x.d * y.n)

-----------------------------------------------------------------------------
(* A pandas Series indexed by year: a sequence of [year, value] points. *)

Pt(y, v) == [year |-> y, value |-> v]

RECURSIVE InsertSorted(_, _)
InsertSorted(p, s) ==
    IF s = <<>> THEN <<p>>
    ELSE IF p.year < Head(s).year THEN <<p>> \o s
    ELSE <<Head(s)>> \o InsertSorted(p, Tail(s))

\* Series.sort_index(): stable, ascending by year
RECURSIVE SortIndex(_)
SortIndex(s) ==
    IF s = <<>> THEN <<>>
    ELSE InsertSorted(s[Len(s)], SortIndex(SubSeq(s, 1, Len(s) - 1)))

\* Series.dropna()
DropNa(s) == SelectSeq(s, LAMBDA p : ~IsNaN(p.value))

RECURSIVE MaxYear(_)
MaxYear(s) ==
    IF Len(s) = 1 THEN s[1].year
    ELSE LET m == MaxYear(Tail(s)) IN IF s[1].year > m THEN s[1].year ELSE m

\* sum of a sequence of floats
RECURSIVE FSum(_)
FSum(vs) == IF vs = <<>> THEN R(0) ELSE FAdd(Head(vs), FSum(Tail(vs)))

-----------------------------------------------------------------------------
(* model.py *)

Raise(msg) == [ok |-> FALSE, fc |-> <<>>, err |-> msg]
Return(fc) == [ok |-> TRUE, fc |-> fc, err |-> ""]

ArimaTooFew == "Not enough non-NaN observations for ARIMA. Need at least 3."
ArimaFitError == "SARIMAX failed"
LrTooFew == "Not enough data for linear regression."

\* the future years counted from the last observed year itself
FutureYearsFromLast(last_year, periods) == [i \in 1..periods |-> last_year + i - 1]

\* [last_year + i for i in range(1, periods + 1)]
FutureYears(last_year, periods) == [i \in 1..periods |-> last_year + i]

\* forecast_arima accepting two observations
ForecastArimaMinTwo(series, periods, fit) ==
    LET s == SortIndex(series) IN
    IF Len(DropNa(s)) < 2 THEN Raise(ArimaTooFew)
    ELSE IF fit.raise THEN Raise(ArimaFitError)
    ELSE Return([i \in 1..periods |-> Pt(MaxYear(s) + i, fit.mean[i])])

\* forecast_arima: `fit` is what statsmodels does with the values, either
\* "raise" (any exception of SARIMAX, fit, get_forecast or of building the
\* result Series) or the predicted means, one per step.
ForecastArima(series, periods, fit) ==
    LET s == SortIndex(series) IN
    IF Len(DropNa(s)) < 3 THEN Raise(ArimaTooFew)
    ELSE IF fit.raise THEN Raise(ArimaFitError)
    ELSE LET last_year == MaxYear(s)
             future_years == FutureYears(last_year, periods)
         IN  Return([i \in 1..periods |-> Pt(future_years[i], fit.mean[i])])

\* LinearRegression().fit(X, y).predict(x): ordinary least squares of the
\* value on the year, evaluated at year x
LrPredict(pts, x) ==
    LET n == R(Len(pts))
        xs == [i \in 1..Len(pts) |-> R(pts[i].year)]
        ys == [i \in 1..Len(pts) |-> pts[i].value]
        xbar == FDiv(FSum(xs), n)
        ybar == FDiv(FSum(ys), n)
        sxy == FSum([i \in 1..Len(pts) |->
                        FMul(FSub(xs[i], xbar), FSub(ys[i], ybar))])
        sxx == FSum([i \in 1..Len(pts) |->
                        FMul(FSub(xs[i], xbar), FSub(xs[i], xbar))])
        coef == IF sxx = R(0) THEN R(0) ELSE FDiv(sxy, sxx)
        intercept == FSub(ybar, FMul(coef, xbar))
    IN  FAdd(intercept, FMul(coef, R(x)))

\* forecast_trend_lr counting the future years from the last year that has
\* a value
ForecastTrendLrLastValid(series, periods) ==
    LET masked == DropNa(SortIndex(series)) IN
    IF Len(masked) < 2 THEN Raise(LrTooFew)
    ELSE Return([i \in 1..periods |->
                    Pt(MaxYear(masked) + i, LrPredict(masked, MaxYear(masked) + i))])

ForecastTrendLr(series, periods) ==
    LET s == SortIndex(series)
        masked == DropNa(s)
    IN  IF Len(masked) < 2 THEN Raise(LrTooFew)
        ELSE LET last_year == MaxYear(s)
                 future_years == FutureYears(last_year, periods)
             IN  Return([i \in 1..periods |->
                            Pt(future_years[i], LrPredict(masked, future_years[i]))])

\* choose_forecast without the except clause
ChooseForecastNoCatch(series, periods, fit) ==
    Bind(ForecastArima(series, periods, fit), LAMBDA a :
        IF a.ok
        THEN [status |-> "ok", method |-> "arima(1,1,1)", fc |-> a.fc,
              err |-> "", fallbackRan |-> FALSE]
        ELSE [status |-> "error", method |-> "", fc |-> <<>>,
              err |-> a.err, fallbackRan |-> FALSE])

\* choose_forecast: try ARIMA, on any exception fall back to the linear trend
ChooseForecast(series, periods, fit) ==
    Bind(ForecastArima(series, periods, fit), LAMBDA a :
        IF a.ok
        THEN [status |-> "ok", method |-> "arima(1,1,1)", fc |-> a.fc,
              err |-> "", fallbackRan |-> FALSE]
        ELSE Bind(ForecastTrendLr(series, periods), LAMBDA l :
                IF l.ok
                THEN [status |-> "ok", method |-> "linear_trend", fc |-> l.fc,
                      err |-> "", fallbackRan |-> TRUE]
                ELSE [status |-> "error", method |-> "", fc |-> <<>>,
                      err |-> l.err, fallbackRan |-> TRUE]))

-----------------------------------------------------------------------------
(* Strings are sequences of one-character strings. *)

UpperCase == <<"A", "B", "C", "D", "E", "F", "G", "H", "I", "J", "K", "L", "M",
               "N", "O", "P", "Q", "R", "S", "T", "U", "V", "W", "X", "Y", "Z">>
LowerCase == <<"a", "b", "c", "d", "e", "f", "g", "h", "i", "j", "k", "l", "m",
               "n", "o", "p", "q", "r", "s", "t", "u", "v", "w", "x", "y", "z">>
Digits == {"0", "1", "2", "3", "4", "5", "6", "7", "8", "9"}
Range(f) == {f[i] : i \in DOMAIN f}
Letters == Range(UpperCase) \cup Range(LowerCase)
\* \s of the re module, as far as the model's alphabet goes
Spaces == {" "}
\* \w of the re module
WordChars == Letters \cup Digits \cup {"_"}

ToLower(c) ==
    IF c \in Range(UpperCase)
    THEN LowerCase[CHOOSE i \in DOMAIN UpperCase : UpperCase[i] = c] ELSE c
ToUpper(c) ==
    IF c \in Range(LowerCase)
    THEN UpperCase[CHOOSE i \in DOMAIN LowerCase : LowerCase[i] = c] ELSE c

\* str.lower()
Lower(s) == [i \in 1..Len(s) |-> ToLower(s[i])]

RECURSIVE LStrip(_)
LStrip(s) == IF s # <<>> /\ Head(s) \in Spaces THEN LStrip(Tail(s)) ELSE s
RECURSIVE RStrip(_)
RStrip(s) ==
    IF s # <<>> /\ s[Len(s)] \in Spaces THEN RStrip(SubSeq(s, 1, Len(s) - 1)) ELSE s
\* str.strip()
Strip(s) == RStrip(LStrip(s))

\* re.sub("[set]", rep, s) with a one-character replacement
SubChar(s, set, rep) == [i \in 1..Len(s) |-> IF s[i] \in set THEN rep ELSE s[i]]
\* re.sub("[set]+", rep, s)
SubRuns(s, set, rep) ==
    LET keep == SelectSeq([i \in 1..Len(s) |-> <<i, s[i]>>],
                    LAMBDA q : ~(q[2] \in set /\ q[1] > 1 /\ s[q[1] - 1] \in set))
    IN  [i \in 1..Len(keep) |-> IF keep[i][2] \in set THEN rep ELSE keep[i][2]]
\* re.sub("[^set]", "", s)
KeepOnly(s, set) == SelectSeq(s, LAMBDA c : c \in set)

\* `sub in s` for strings
Contains(sub, s) ==
    \E i \in 0..(Len(s) - Len(sub)) : SubSeq(s, i + 1, i + Len(sub)) = sub

AllStatesAggregateName ==
    <<"A", "l", "l", "_", "S", "t", "a", "t", "e", "s", "_",
      "A", "g", "g", "r", "e", "g", "a", "t", "e">>
AllStatesAggregateLabel ==
    <<"A", "l", "l", " ", "S", "t", "a", "t", "e", "s", " ",
      "(", "A", "g", "g", "r", "e", "g", "a", "t", "e", ")">>
AllStatesLabels ==
    {<<"a", "l", "l", " ", "s", "t", "a", "t", "e", "s">>,
     Lower(AllStatesAggregateLabel),
     Lower(AllStatesAggregateName),
     <<"a", "l", "l", "_", "s", "t", "a", "t", "e", "s">>}

-----------------------------------------------------------------------------
(* predict.py *)

\* pd.read_csv of the table process_all wrote: an empty field is read as NaN,
\* which astype(str) turns into "nan"
ReadCleaned(t) ==
    [i \in DOMAIN t.rows |->
        [state |-> IF t.rows[i][1].s = <<>> THEN <<"n", "a", "n">> ELSE t.rows[i][1].s,
         year |-> t.rows[i][2].v.n,
         value |-> t.rows[i][3].v]]

\* sanitize_name
SanitizeName(name) ==
    IF name = <<>> THEN AllStatesAggregateName
    ELSE LET s1 == Strip(name)
             s2 == SubChar(s1, {"(", ")", "/", "\\"}, " ")
             s3 == SubRuns(s2, Spaces, "_")
             s4 == KeepOnly(s3, WordChars)
             s5 == SubRuns(s4, {"_"}, "_")
         IN  IF s5 = <<>> THEN AllStatesAggregateName ELSE s5

\* is_all_states_label
IsAllStatesLabel(label) ==
    IF label = <<>> THEN FALSE ELSE Lower(Strip(label)) \in AllStatesLabels

RECURSIVE SetToSortedSeq(_)
SetToSortedSeq(S) ==
    IF S = {} THEN <<>>
    ELSE LET m == CHOOSE x \in S : \A y \in S : x <= y
         IN  <<m>> \o SetToSortedSeq(S \ {m})

\* df.groupby("year")["value"].sum(): NaN is skipped, an all-NaN year sums to 0
GroupSum(rows) ==
    LET ys == SetToSortedSeq({rows[i].year : i \in 1..Len(rows)})
        vals(y) == SelectSeq([i \in 1..Len(rows) |-> rows[i]],
                       LAMBDA r : r.year = y /\ ~IsNaN(r.value))
    IN  [j \in 1..Len(ys) |->
            Pt(ys[j], FSum([i \in 1..Len(vals(ys[j])) |-> vals(ys[j])[i].value]))]

\* the per-state series without the grouping: one point per row
GroupMeanPerRow(rows) == [i \in 1..Len(rows) |-> Pt(rows[i].year, rows[i].value)]

\* df.groupby("year")["value"].mean(): NaN is skipped, an all-NaN year is NaN
GroupMean(rows) ==
    LET ys == SetToSortedSeq({rows[i].year : i \in 1..Len(rows)})
        vals(y) == SelectSeq([i \in 1..Len(rows) |-> rows[i]],
                       LAMBDA r : r.year = y /\ ~IsNaN(r.value))
    IN  [j \in 1..Len(ys) |->
            Pt(ys[j],
               IF vals(ys[j]) = <<>> THEN NaN
               ELSE FDiv(FSum([i \in 1..Len(vals(ys[j])) |-> vals(ys[j])[i].value]),
                         R(Len(vals(ys[j])))))]

PrepOk(series) == [ok |-> TRUE, series |-> series, err |-> ""]
PrepRaise(msg) == [ok |-> FALSE, series |-> <<>>, err |-> msg]

\* prepare_series (the table has its state, year and value columns)
PrepareSeries(d, state, aggregate) ==
    LET d1 == [i \in 1..Len(d) |-> [d[i] EXCEPT !.state = Strip(d[i].state)]]
    IN
    IF aggregate \/ (state # <<>> /\ IsAllStatesLabel(state))
    THEN LET grouped == DropNa(GroupSum(d1)) IN
         IF grouped = <<>>
         THEN PrepRaise("No data available to aggregate across states.")
         ELSE PrepOk(SortIndex(grouped))
    ELSE IF state = <<>>
    THEN PrepRaise("No state provided and aggregate not requested.")
    ELSE LET key == Lower(Strip(state))
             exact == SelectSeq(d1, LAMBDA r : Lower(r.state) = key)
             \* .unique(): the distinct lower-cased names in order of appearance
             cands == SelectSeq([i \in 1..Len(d1) |-> <<i, Lower(d1[i].state)>>],
                          LAMBDA q : \A j \in 1..(q[1] - 1) : Lower(d1[j].state) # q[2])
             matches == SelectSeq(cands, LAMBDA q : Contains(key, q[2]))
         IN  IF exact = <<>> /\ matches = <<>>
             THEN PrepRaise("No data found for state")
             ELSE LET df_s == IF exact # <<>> THEN exact
                              ELSE SelectSeq(d1, LAMBDA r : Lower(r.state) = matches[1][2])
                      grouped == DropNa(GroupMean(df_s))
                  IN  IF grouped = <<>>
                      THEN PrepRaise("No numeric values found for state")
                      ELSE PrepOk(SortIndex(grouped))

Row(y, v, ty) == [year |-> y, value |-> v, type |-> ty]

FsRaise(msg) ==
    [ok |-> FALSE, err |-> msg, name |-> <<>>, rows |-> <<>>, series |-> <<>>,
     method |-> "", chose |-> FALSE, wroteCsv |-> FALSE, wrotePlot |-> FALSE]

\* the name and the rows of the CSV forecast_state writes
CsvName(state_label, aggregate) ==
    SanitizeName(IF ~aggregate THEN state_label ELSE AllStatesAggregateName)
CsvRows(series, fc) ==
    LET hist_df == [i \in 1..Len(series) |->
                      Row(series[i].year, series[i].value, "history")]
        f_df == [i \in 1..Len(fc) |-> Row(fc[i].year, fc[i].value, "forecast")]
    IN  hist_df \o f_df

\* forecast_state writing the history before it forecasts
ForecastStateWriteFirst(d, state_label, periods, aggregate, fit) ==
    Bind(PrepareSeries(d, state_label, aggregate), LAMBDA prep :
        IF ~prep.ok THEN FsRaise(prep.err)
        ELSE Bind(ChooseForecast(prep.series, periods, fit), LAMBDA r :
                [ok |-> r.status = "ok", err |-> r.err,
                 name |-> CsvName(state_label, aggregate),
                 rows |-> CsvRows(prep.series, r.fc), series |-> prep.series,
                 method |-> r.method, chose |-> TRUE,
                 wroteCsv |-> TRUE, wrotePlot |-> r.status = "ok"]))

\* forecast_state: the series, the forecast, then the CSV and the plot
ForecastState(d, state_label, periods, aggregate, fit) ==
    Bind(PrepareSeries(d, state_label, aggregate), LAMBDA prep :
        IF ~prep.ok THEN FsRaise(prep.err)
        ELSE IF prep.series = <<>> THEN FsRaise("No series data available")
        ELSE Bind(ChooseForecast(prep.series, periods, fit), LAMBDA r :
                IF r.status # "ok"
                THEN [FsRaise(r.err) EXCEPT !.series = prep.series, !.chose = TRUE]
                ELSE [ok |-> TRUE, err |-> "",
                      name |-> CsvName(state_label, aggregate),
                      rows |-> CsvRows(prep.series, r.fc), series |-> prep.series,
                      method |-> r.method, chose |-> TRUE,
                      wroteCsv |-> TRUE, wrotePlot |-> TRUE]))

\* main: one forecast_state call inside try/except, then the exit status
Main(d, args, fit, csv, plots) ==
    Bind(ForecastState(d, IF args.aggregate THEN AllStatesAggregateLabel
                          ELSE args.state,
                       args.periods, args.aggregate, fit),
         LAMBDA fs :
            [csv |-> IF fs.wroteCsv THEN (fs.name :> fs.rows) @@ csv ELSE csv,
             plots |-> IF fs.wrotePlot THEN plots \cup {fs.name} ELSE plots,
             out |-> [phase |-> "done", args |-> args, fit |-> fit,
                      series |-> fs.series, chose |-> fs.chose, name |-> fs.name,
                      results |-> IF fs.ok THEN 1 ELSE 0,
                      logged |-> fs.err, uncaught |-> "",
                      exit |-> IF fs.ok THEN 0 ELSE 4]])

-----------------------------------------------------------------------------
(* The inputs the forecast selector is exercised on *)

Years == 2001..(2000 + MaxLen)
SeriesValues == {NaN, R(1), R(4)}
ArimaMeans == {R(0), R(7)}

\* every series of at most MaxLen points with distinct years, in any order
SeriesInputs ==
    UNION {{s \in [1..n -> [year : Years, value : SeriesValues]] :
              \A i, j \in 1..n : i # j => s[i].year # s[j].year} : n \in 0..MaxLen}

\* what the statistical library may do on a call with `periods` steps: raise,
\* or predict some level at every step
Fits(periods) ==
    {[raise |-> TRUE, mean |-> <<>>]}
    \cup {[raise |-> FALSE, mean |-> [i \in 1..periods |-> m]] : m \in ArimaMeans}

NoResult == [status |-> "none", method |-> "", fc |-> <<>>, err |-> "",
             fallbackRan |-> FALSE]
NoFit == [raise |-> FALSE, mean |-> <<>>]
NoCall == [phase |-> "none", series |-> <<>>, periods |-> 0, fit |-> NoFit,
           res |-> NoResult]

NoArgs == [state |-> <<>>, periods |-> 0, aggregate |-> FALSE]
NoMain == [phase |-> "none", args |-> NoArgs, fit |-> NoFit, series |-> <<>>,
           chose |-> FALSE, name |-> <<>>, results |-> 0, logged |-> "",
           uncaught |-> "", exit |-> 0]

\* a caller hands choose_forecast a series and a number of periods
InitSelector ==
    /\ call \in {[phase |-> "input", series |-> s, periods |-> p, fit |-> NoFit,
                  res |-> NoResult] : s \in SeriesInputs, p \in 1..MaxPeriods}
    /\ df = <<>>
    /\ csvFiles = <<>>
    /\ plotFiles = {}
    /\ mainOut = NoMain
    /\ snap = <<>>
    /\ proj = Idle
    /\ apiResp = Idle
    /\ snapOut = Idle
    /\ rawDir = <<>>
    /\ processed = Idle
    /\ findCall = Idle
    /\ csvIn = Idle
    /\ db = Idle
    /\ ingested = Idle
    /\ normCall = Idle
    /\ fetch = Idle
    /\ served = Idle

ChooseForecastCall ==
    /\ call.phase = "input"
    /\ \E fit \in Fits(call.periods) :
          call' = [call EXCEPT !.phase = "returned", !.fit = fit,
                     !.res = ChooseForecast(call.series, call.periods, fit)]
    /\ UNCHANGED <<df, csvFiles, plotFiles, mainOut, snap, proj, apiResp, snapOut,
                   rawDir, processed,
                   findCall, csvIn, db, ingested,
                   normCall, fetch, served>>

NextSelector == ChooseForecastCall

SpecSelector == InitSelector /\ [][NextSelector]_vars

-----------------------------------------------------------------------------
(* predict.main on a cleaned table *)

Goa == <<"G", "o", "a">>
GoaEast == <<"G", "o", "a", " ", "E", "a", "s", "t">>
\* the entity names of the cleaned table, in the order sort_values gives them
StateNames == <<Goa, GoaEast>>
DfValues == {R(1), R(4)}
\* the years of the cleaned table: two neighbours and one after a gap
DfYears == {2001, 2002, 2004}

RowBefore(a, b) ==
    LET ia == CHOOSE i \in DOMAIN StateNames : StateNames[i] = a.state
        ib == CHOOSE i \in DOMAIN StateNames : StateNames[i] = b.state
    IN  ia < ib \/ (ia = ib /\ a.year <= b.year)

\* cleaned tables as process_all writes them: no missing value, sorted by
\* state and year, the same (state, year) possibly more than once
CleanTables ==
    UNION {{d \in [1..n -> [state : Range(StateNames), year : DfYears,
                            value : DfValues]] :
              \A i \in 1..(n - 1) : RowBefore(d[i], d[i + 1])} : n \in 0..MaxRows}

\* --state values of the command line
StateArgs ==
    {<<>>, <<"g", "o", "a">>, <<" ", "E", "A", "S", "T">>, <<"x">>,
     <<"A", "l", "l", " ", "S", "t", "a", "t", "e", "s">>}

\* argparse's default for --state
DefaultState == <<"M", "a", "h", "a", "r", "a", "s", "h", "t", "r", "a">>

\* the command lines: a state, or --aggregate (which leaves --state unused)
MainArgs ==
    [state : StateArgs, periods : 1..MaxPeriods, aggregate : {FALSE}]
    \cup [state : {DefaultState}, periods : 1..MaxPeriods, aggregate : {TRUE}]

InitPredict ==
    /\ call = NoCall
    /\ df \in CleanTables
    /\ csvFiles = <<>>
    /\ plotFiles = {}
    /\ mainOut = NoMain
    /\ snap = <<>>
    /\ proj = Idle
    /\ apiResp = Idle
    /\ snapOut = Idle
    /\ rawDir = <<>>
    /\ processed = Idle
    /\ findCall = Idle
    /\ csvIn = Idle
    /\ db = Idle
    /\ ingested = Idle
    /\ normCall = Idle
    /\ fetch = Idle
    /\ served = Idle

PredictMain ==
    /\ mainOut.phase = "none"
    /\ \E args \in MainArgs :
          \E fit \in Fits(args.periods) :
              \E m \in {Main(df, args, fit, csvFiles, plotFiles)} :
                /\ csvFiles' = m.csv
                /\ plotFiles' = m.plots
                /\ mainOut' = m.out
    /\ UNCHANGED <<call, df, snap, proj, apiResp, snapOut,
                   rawDir, processed,
                   findCall, csvIn, db, ingested,
                   normCall, fetch, served>>

NextPredict == PredictMain

SpecPredict == InitPredict /\ [][NextPredict]_vars

-----------------------------------------------------------------------------
(* The scenario projector: forecast_from_snapshot.py and api_server.py *)

\* a cell holding text that is not a number
Text == [k |-> "str", n |-> 0, d |-> 1]
IsNumber(x) == x.k \in {"fin", "inf", "nan"}

\* pd.to_numeric(..., errors="coerce") on one cell
ToNumeric(x) == IF IsNumber(x) THEN x ELSE NaN

\* the values appended by
\*   for i in range(first, periods + 1): v = v * (1.0 + rate); hist.append(v)
RECURSIVE BuildCompoundLoop(_, _, _, _)
BuildCompoundLoop(v, first, periods, rate) ==
    IF first > periods THEN <<>>
    ELSE Bind(FMul(v, FAdd(R(1), rate)),
              LAMBDA nv : <<nv>> \o BuildCompoundLoop(nv, first + 1, periods, rate))

\* the values appended by
\*   for i in range(first, periods + 1): v = v + delta; hist.append(v)
RECURSIVE BuildLinearLoop(_, _, _, _)
BuildLinearLoop(v, first, periods, delta) ==
    IF first > periods THEN <<>>
    ELSE Bind(FAdd(v, delta),
              LAMBDA nv : <<nv>> \o BuildLinearLoop(nv, first + 1, periods, delta))

BuildTypeError == "TypeError: unsupported operand type(s)"

\* build_forecasts_for_value with both loops running once more
BuildForecastsOneMore(value, periods, mode, rate, delta) ==
    IF ~IsNumber(value) /\ periods >= 0
    THEN [ok |-> FALSE, years |-> <<>>, hist |-> <<>>, err |-> BuildTypeError]
    ELSE [ok |-> TRUE,
          years |-> <<0>> \o [i \in 1..(periods + 1) |-> i],
          hist |-> <<value>> \o
                   (IF mode = "compound"
                    THEN BuildCompoundLoop(value, 0, periods, rate)
                    ELSE BuildLinearLoop(value, 0, periods, delta)),
          err |-> ""]

\* build_forecasts_for_value compounding in every mode but "linear"
BuildForecastsLinearByName(value, periods, mode, rate, delta) ==
    IF ~IsNumber(value) /\ periods >= 1
    THEN [ok |-> FALSE, years |-> <<>>, hist |-> <<>>, err |-> BuildTypeError]
    ELSE [ok |-> TRUE,
          years |-> <<0>> \o [i \in 1..periods |-> i],
          hist |-> <<value>> \o
                   (IF mode # "linear"
                    THEN BuildCompoundLoop(value, 1, periods, rate)
                    ELSE BuildLinearLoop(value, 1, periods, delta)),
          err |-> ""]

\* build_forecasts_for_value: (years, hist), or the TypeError of the first
\* arithmetic step on a value that is not a number
BuildForecastsForValue(value, periods, mode, rate, delta) ==
    IF ~IsNumber(value) /\ periods >= 1
    THEN [ok |-> FALSE, years |-> <<>>, hist |-> <<>>, err |-> BuildTypeError]
    ELSE [ok |-> TRUE,
          years |-> <<0>> \o [i \in 1..periods |-> i],
          hist |-> <<value>> \o
                   (IF mode = "compound"
                    THEN BuildCompoundLoop(value, 1, periods, rate)
                    ELSE BuildLinearLoop(value, 1, periods, delta)),
          err |-> ""]

\* the points appended by the loop of scenario_forecast_single_value from
\* step i on; `compound` is what the test of the mode gives
RECURSIVE ScenarioLoop(_, _, _, _, _, _)
ScenarioLoop(v, i, periods, compound, rate, delta) ==
    IF i > periods THEN <<>>
    ELSE Bind(IF compound THEN FMul(v, FAdd(R(1), rate)) ELSE FAdd(v, delta),
              LAMBDA nv : <<(<<i, nv>>)>>
                          \o ScenarioLoop(nv, i + 1, periods, compound, rate, delta))

\* scenario_forecast_single_value adding delta in every mode
ScenarioForecastAlwaysLinear(value, periods, mode, rate, delta) ==
    IF value = None \/ IsNaN(value) THEN <<>>
    ELSE <<(<<0, value>>)>> \o ScenarioLoop(value, 1, periods, FALSE, rate, delta)

\* scenario_forecast_single_value: the list of (offset, value) tuples
ScenarioForecastSingleValue(value, periods, mode, rate, delta) ==
    IF value = None \/ IsNaN(value) THEN <<>>
    ELSE <<(<<0, value>>)>>
         \o ScenarioLoop(value, 1, periods, mode = "compound", rate, delta)

\* the default of base_year / --base-year
BaseYear == 2024

\* ingest_csv.build_normalized_df, the state and the metric column: what
\* read_states_from_db finds in the states table
BuildNormalizedDf(table) ==
    [i \in 1..Len(table) |->
        [state |-> Strip(table[i].state), value |-> ToNumeric(table[i].cell)]]

ApiAllStatesLabels ==
    {<<"a", "l", "l", " ", "s", "t", "a", "t", "e", "s">>,
     Lower(AllStatesAggregateLabel),
     Lower(AllStatesAggregateName),
     <<"a", "l", "l", "_", "s", "t", "a", "t", "e", "s">>}

ApiNoData == "No data for state"
ApiServerError == "Internal Server Error"

\* Series.str.contains(pat) searches pat as a regular expression (regex=True
\* is the default).  For a pattern of literal characters and parentheses:
\* compiling raises re.error unless the parentheses are balanced ...
RegexError(pat) ==
    LET opened(n) == Cardinality({i \in 1..n : pat[i] = "("})
        closed(n) == Cardinality({i \in 1..n : pat[i] = ")"})
    IN  \/ \E n \in 1..Len(pat) : closed(n) > opened(n)
        \/ opened(Len(pat)) # closed(Len(pat))

\* ... and a parenthesis is a group delimiter that matches no character
StrContains(pat, s) ==
    Contains(SelectSeq(pat, LAMBDA c : c \notin {"(", ")"}), s)
ApiNoBase == "No numeric base value for metric"

ApiError(status, label, mode, msg) ==
    [status |-> status, label |-> label, mode |-> mode, base |-> None,
     history |-> <<>>, forecast |-> <<>>, error |-> msg]

\* api_forecast from line 194 on: the series split into history and forecast
ApiSeries(label, base_val, periods, mode, rate, delta) ==
    LET series == ScenarioForecastSingleValue(base_val, periods, mode, rate, delta)
        at0 == SelectSeq(series, LAMBDA q : q[1] = 0)
        later == SelectSeq(series, LAMBDA q : q[1] # 0)
    IN  [status |-> 200, label |-> label, mode |-> mode, base |-> base_val,
         history |-> [i \in 1..Len(at0) |-> Pt(BaseYear + at0[i][1], at0[i][2])],
         forecast |-> [i \in 1..Len(later) |->
                          Pt(BaseYear + later[i][1], later[i][2])],
         error |-> ""]

\* api_forecast with a valid metric and a readable database; base_year is
\* left at its default.  `base` is the base value the handler resolved.
ApiForecast(d, stateArg, periods, modeArg, rate, delta) ==
    LET state == Strip(stateArg)
        mode == IF modeArg \in {"compound", "linear"} THEN modeArg ELSE "compound"
        exact == SelectSeq(d, LAMBDA r : Lower(r.state) = Lower(state))
        sub == SelectSeq(d, LAMBDA r : StrContains(Lower(state), Lower(r.state)))
        matches == IF exact # <<>> THEN exact ELSE sub
        numbers == SelectSeq(d, LAMBDA r : ~IsNaN(r.value))
        aggregate == state # <<>> /\ Lower(Strip(state)) \in ApiAllStatesLabels
        label == IF aggregate THEN AllStatesAggregateLabel
                 ELSE IF matches = <<>> THEN state ELSE matches[1].state
        base_val ==
            IF aggregate
            THEN (IF numbers = <<>> THEN None
                  ELSE FSum([i \in 1..Len(numbers) |-> numbers[i].value]))
            ELSE IF matches = <<>> \/ IsNaN(matches[1].value) THEN None
            ELSE matches[1].value
    IN  IF ~aggregate /\ exact = <<>> /\ RegexError(Lower(state))
        THEN ApiError(500, state, mode, ApiServerError)
        ELSE IF ~aggregate /\ matches = <<>> THEN ApiError(404, state, mode, ApiNoData)
        ELSE IF base_val = None \/ IsNaN(base_val)
        THEN [ApiError(400, label, mode, ApiNoBase) EXCEPT !.base = base_val]
        ELSE ApiSeries(label, base_val, periods, mode, rate, delta)

\* sanitize_filename
SanitizeFilename(s) ==
    LET s1 == Strip(s)
        s2 == SubChar(s1, {"(", ")", "/", "\\"}, " ")
        s3 == SubRuns(s2, Spaces, "_")
        s4 == KeepOnly(s3, WordChars \cup {"-", "."})
    IN  IF s4 = <<>> THEN <<"m", "e", "t", "r", "i", "c">> ELSE s4

SnapRow(state, year, value, type) ==
    [state |-> state, year |-> year, value |-> value, type |-> type]

\* run, lines 146-152: the rows of one state
RunStateRows(state, val, periods, mode, rate, delta) ==
    LET b == BuildForecastsForValue(val, periods, mode, rate, delta)
    IN  [i \in 1..Len(b.years) |->
            SnapRow(state, BaseYear + b.years[i], b.hist[i],
                    IF i = 1 THEN "history" ELSE "forecast")]

\* run, lines 138-152: float() of a text cell raises and the row is skipped
RECURSIVE RunRows(_, _, _, _, _)
RunRows(table, periods, mode, rate, delta) ==
    IF table = <<>> THEN <<>>
    ELSE (IF Head(table).cell = Text THEN <<>>
          ELSE RunStateRows(Strip(Head(table).state), Head(table).cell,
                            periods, mode, rate, delta))
         \o RunRows(Tail(table), periods, mode, rate, delta)

RunNoNumeric == "contains no numeric values."
NoRun == [phase |-> "none", exit |-> "", rows |-> <<>>, plots |-> {},
          agg |-> <<>>, history |-> <<>>, forecast |-> <<>>]

\* run from line 121 on: the metric column and the state column are found
Run(table, periods, mode, rate, delta) ==
    IF \A i \in 1..Len(table) : IsNaN(ToNumeric(table[i].cell))
    THEN [NoRun EXCEPT !.phase = "done", !.exit = RunNoNumeric]
    ELSE LET rows == RunRows(table, periods, mode, rate, delta)
             agg == GroupSum(rows)
         IN  [phase |-> "done", exit |-> "", rows |-> rows,
              plots |-> {SanitizeFilename(Strip(table[i].state)) :
                           i \in {j \in 1..Len(table) : table[j].cell # Text}},
              agg |-> agg,
              history |-> SelectSeq(agg, LAMBDA a : a.year <= BaseYear),
              forecast |-> SelectSeq(agg, LAMBDA a : a.year > BaseYear)]

-----------------------------------------------------------------------------
(* The inputs the scenario projector is exercised on *)

MaxSteps == 2
MaxSnapRows == 2

Kerala == <<"K", "e", "r", "a", "l", "a">>
\* the states of the snapshot, one row each, in file order
SnapNames == <<GoaEast, Goa, Kerala>>
SnapCells == {NaN, PosInf, R(50), R(100), Text}
\* a snapshot with a name in parentheses
GoaN == <<"G", "o", "a", " ", "(", "N", ")">>
NorthSnapshot == <<[state |-> Goa, cell |-> R(100)], [state |-> GoaN, cell |-> R(50)]>>
Snapshots ==
    UNION {{t \in [1..n -> [state : Range(SnapNames), cell : SnapCells]] :
              \A i \in 1..n : t[i].state = SnapNames[i]} : n \in 0..MaxSnapRows}
    \cup {NorthSnapshot}

BaseValues == {None, NaN, PosInf, NegInf, R(50), R(100)}
ScenarioModes == {"compound", "linear", "exponential"}
Rates == {Fin(-1, 2), Fin(1, 10)}
Deltas == {R(5), Fin(-1, 2)}

Params(periods, mode, rate, delta) ==
    [periods |-> periods, mode |-> mode, rate |-> rate, delta |-> delta]

\* the two documented calls
LinearExample == Params(2, "linear", R(0), R(5))
CompoundExample == Params(3, "compound", Fin(-1, 100), R(0))

ScenarioParams ==
    {Params(n, m, r, dl) : n \in (-1)..MaxSteps, m \in ScenarioModes,
                           r \in Rates, dl \in Deltas}
    \cup {LinearExample, CompoundExample}

\* ?state= values of a request
ApiStateArgs ==
    {<<"g", "o", "a">>, <<"E", "A", "S", "T", " ">>, <<"x">>,
     <<"A", "l", "l", " ", "S", "t", "a", "t", "e", "s">>,
     <<"a", " ", "(", "n", ")">>, <<"a", " ", "(">>}

\* no operation of the scenario projector has run yet
ScenarioIdle == proj = Idle /\ apiResp = Idle /\ snapOut = Idle

InitScenario ==
    /\ call = NoCall
    /\ df = <<>>
    /\ csvFiles = <<>>
    /\ plotFiles = {}
    /\ mainOut = NoMain
    /\ snap \in Snapshots
    /\ ScenarioIdle
    /\ rawDir = <<>>
    /\ processed = Idle
    /\ findCall = Idle
    /\ csvIn = Idle
    /\ db = Idle
    /\ ingested = Idle
    /\ normCall = Idle
    /\ fetch = Idle
    /\ served = Idle

\* a direct call of both projector functions
ProjectCall ==
    /\ ScenarioIdle
    /\ \E v \in BaseValues, p \in ScenarioParams :
          proj' = [phase |-> "done", value |-> v, params |-> p,
                   built |-> BuildForecastsForValue(v, p.periods, p.mode,
                                                    p.rate, p.delta),
                   single |-> ScenarioForecastSingleValue(v, p.periods, p.mode,
                                                          p.rate, p.delta)]
    /\ UNCHANGED <<call, df, csvFiles, plotFiles, mainOut, snap, apiResp, snapOut,
                   rawDir, processed,
                   findCall, csvIn, db, ingested,
                   normCall, fetch, served>>

\* GET /api/forecast on the database ingested from the snapshot
ApiForecastRequest ==
    /\ ScenarioIdle
    /\ \E s \in ApiStateArgs, p \in ScenarioParams :
          apiResp' = [phase |-> "done", state |-> s, params |-> p,
                      res |-> ApiForecast(BuildNormalizedDf(snap), s, p.periods,
                                          p.mode, p.rate, p.delta)]
    /\ UNCHANGED <<call, df, csvFiles, plotFiles, mainOut, snap, proj, snapOut,
                   rawDir, processed,
                   findCall, csvIn, db, ingested,
                   normCall, fetch, served>>

\* forecast_from_snapshot.py on the snapshot; --mode is one of its two choices
SnapshotRun ==
    /\ ScenarioIdle
    /\ \E p \in {q \in ScenarioParams : q.mode \in {"compound", "linear"}} :
          snapOut' = [phase |-> "done", params |-> p,
                      res |-> Run(snap, p.periods, p.mode, p.rate, p.delta)]
    /\ UNCHANGED <<call, df, csvFiles, plotFiles, mainOut, snap, proj, apiResp,
                   rawDir, processed,
                   findCall, csvIn, db, ingested,
                   normCall, fetch, served>>

NextScenario == ProjectCall \/ ApiForecastRequest \/ SnapshotRun

SpecScenario == InitScenario /\ [][NextScenario]_vars

-----------------------------------------------------------------------------
(* Tables as pandas reads them: process_data.py *)

\* characters in code point order, as far as the model's alphabet goes
Alphabet ==
    <<" ", "(", ")", "-", ".", "/">>
    \o <<"0", "1", "2", "3", "4", "5", "6", "7", "8", "9">>
    \o UpperCase \o <<"\\", "_">> \o LowerCase
CharCode(c) == CHOOSE i \in DOMAIN Alphabet : Alphabet[i] = c

\* a < b for str
RECURSIVE StrLess(_, _)
StrLess(a, b) ==
    IF b = <<>> THEN FALSE
    ELSE IF a = <<>> THEN TRUE
    ELSE IF Head(a) # Head(b) THEN CharCode(Head(a)) < CharCode(Head(b))
    ELSE StrLess(Tail(a), Tail(b))

IsDigits(s) == \A i \in 1..Len(s) : s[i] \in Digits
DigitValue(c) == CharCode(c) - CharCode("0")
\* int() of a string of digits
RECURSIVE DigitsToInt(_)
DigitsToInt(s) ==
    IF s = <<>> THEN 0
    ELSE 10 * DigitsToInt(SubSeq(s, 1, Len(s) - 1)) + DigitValue(s[Len(s)])

\* str.title(): a letter is upper case after a non-letter, lower case after a
\* letter
Title(s) ==
    [i \in 1..Len(s) |->
        IF i = 1 \/ s[i - 1] \notin Letters THEN ToUpper(s[i]) ELSE ToLower(s[i])]

\* re.search(r"\bword\b", s)
WordSearch(word, s) ==
    \E i \in 0..(Len(s) - Len(word)) :
        /\ SubSeq(s, i + 1, i + Len(word)) = word
        /\ (i = 0 \/ s[i] \notin WordChars)
        /\ (i + Len(word) = Len(s) \/ s[i + Len(word) + 1] \notin WordChars)

\* the first run of four digits: Series.str.extract(r"(\d{4})"); <<>> if none
FirstFourDigits(s) ==
    LET at == {i \in 1..(Len(s) - 3) : IsDigits(SubSeq(s, i, i + 3))}
    IN  IF at = {} THEN <<>>
        ELSE LET i == CHOOSE k \in at : \A j \in at : k <= j
             IN  SubSeq(s, i, i + 3)

\* cells: a number (NaN is the missing cell) or a text; a number in a column
\* that also holds text stands for the text of that number, which every
\* operation below treats alike
Num(x) == [t |-> "num", v |-> x, s |-> <<>>]
Txt(s) == [t |-> "text", v |-> NaN, s |-> s]
Missing == Num(NaN)

\* pd.isna / Series.notna on a cell
IsNa(c) == c.t = "num" /\ IsNaN(c.v)

\* pd.to_numeric(errors="coerce") on a cell: text parses when it is digits
ToNumericCell(c) ==
    IF c.t = "num" THEN c
    ELSE IF Strip(c.s) # <<>> /\ IsDigits(Strip(c.s)) THEN Num(R(DigitsToInt(Strip(c.s))))
    ELSE Missing

\* column labels the code names
YearCol == <<"y", "e", "a", "r">>
ValueCol == <<"v", "a", "l", "u", "e">>
StateCol == <<"s", "t", "a", "t", "e">>
IndexCol == <<"i", "n", "d", "e", "x">>
SourceFileCol == <<"s", "o", "u", "r", "c", "e", "_", "f", "i", "l", "e">>
UnknownLower == <<"u", "n", "k", "n", "o", "w", "n">>
Unknown == <<"U", "n", "k", "n", "o", "w", "n">>

\* a DataFrame: column labels and rows of cells
Table(cols, rows) == [cols |-> cols, rows |-> rows]
HasCol(t, c) == \E i \in DOMAIN t.cols : t.cols[i] = c
ColIndex(t, c) == CHOOSE i \in DOMAIN t.cols : t.cols[i] = c /\ \A j \in 1..(i - 1) : t.cols[j] # c
\* pd.api.types.is_numeric_dtype(df[c])
IsNumericDtype(t, c) == \A r \in DOMAIN t.rows : t.rows[r][ColIndex(t, c)].t = "num"
\* df.rename(columns={old: new})
Rename(t, old, new) ==
    [t EXCEPT !.cols = [i \in DOMAIN t.cols |-> IF t.cols[i] = old THEN new ELSE t.cols[i]]]
\* df[[names]], every name being a column
Select(t, names) ==
    Table(names, [r \in DOMAIN t.rows |->
                     [j \in DOMAIN names |-> t.rows[r][ColIndex(t, names[j])]]])
\* df[c] = cell, a new column or an overwritten one
SetConst(t, c, cell) ==
    IF HasCol(t, c)
    THEN [t EXCEPT !.rows = [r \in DOMAIN t.rows |->
                                [t.rows[r] EXCEPT ![ColIndex(t, c)] = cell]]]
    ELSE Table(Append(t.cols, c), [r \in DOMAIN t.rows |-> Append(t.rows[r], cell)])
\* df[c] = pd.to_numeric(df[c], errors="coerce")
ToNumericCol(t, c) ==
    [t EXCEPT !.rows = [r \in DOMAIN t.rows |->
                           [t.rows[r] EXCEPT ![ColIndex(t, c)] = ToNumericCell(@)]]]
\* df[df["year"].notna()]: the filter without its test of the value
DropMissingYearOnly(t) ==
    [t EXCEPT !.rows = SelectSeq(t.rows, LAMBDA row : ~IsNa(row[ColIndex(t, YearCol)]))]
\* df[df["year"].notna() & df["value"].notna()]
DropMissing(t) ==
    [t EXCEPT !.rows = SelectSeq(t.rows, LAMBDA row :
                          /\ ~IsNa(row[ColIndex(t, YearCol)])
                          /\ ~IsNa(row[ColIndex(t, ValueCol)]))]
\* int() of a finite float: truncation towards zero
Trunc(x) == IF x.n >= 0 THEN x.n \div x.d ELSE -((-x.n) \div x.d)
\* df["year"].astype(int) raises on a non-finite cell and on text
CanCastYear(t) ==
    \A r \in DOMAIN t.rows :
        LET c == t.rows[r][ColIndex(t, YearCol)] IN c.t = "num" /\ IsFinite(c.v)
YearAsInt(t) ==
    [t EXCEPT !.rows = [r \in DOMAIN t.rows |->
                           [t.rows[r] EXCEPT ![ColIndex(t, YearCol)] = Num(R(Trunc(@.v)))]]]

\* detect_year_columns on one label
IsYearLabel(c) ==
    LET s == Strip(c)
    IN  \/ Len(s) = 4 /\ IsDigits(s)
        \/ /\ Len(s) = 7
           /\ IsDigits(SubSeq(s, 1, 4)) /\ s[5] \in {"-", "/"} /\ IsDigits(SubSeq(s, 6, 7))
\* detect_year_columns
DetectYearColumns(cols) == SelectSeq(cols, IsYearLabel)

\* standardize_columns
StandardizeLabel(c) ==
    Lower(Strip([i \in 1..Len(c) |->
                    IF c[i] \in WordChars \cup Spaces THEN c[i] ELSE "_"]))
StandardizeColumns(t) == [t EXCEPT !.cols = [i \in DOMAIN t.cols |-> StandardizeLabel(t.cols[i])]]

\* re.search(r"state|region|area|name|unit", c, re.I)
StateWords ==
    {<<"s", "t", "a", "t", "e">>, <<"r", "e", "g", "i", "o", "n">>,
     <<"a", "r", "e", "a">>, <<"n", "a", "m", "e">>, <<"u", "n", "i", "t">>}
StateLike(c) == \E w \in StateWords : Contains(w, Lower(c))
\* re.search(r"state|region|area|name", c, re.I) of the fallback heuristics
StateLikeFallback(c) == \E w \in StateWords \ {<<"u", "n", "i", "t">>} : Contains(w, Lower(c))

PreferredValueCols ==
    <<(<<"a", "v", "a", "i", "l", "a", "b", "i", "l", "i", "t", "y">>),
      (<<"e", "x", "t", "r", "a", "c", "t", "i", "o", "n">>),
      (<<"a", "m", "o", "u", "n", "t">>),
      (<<"q", "u", "a", "n", "t", "i", "t", "y">>)>>

LongCols == <<StateCol, YearCol, ValueCol>>
HasLongCols(t) == \A i \in DOMAIN LongCols : HasCol(t, LongCols[i])

\* try_make_long, lines 82-98: the renames of the long path
LongRenames(df0) ==
    LET preferred == SelectSeq(PreferredValueCols, LAMBDA c : HasCol(df0, c))
        numeric_cols == SelectSeq(df0.cols, LAMBDA c :
                            IsNumericDtype(df0, c) /\ c # YearCol)
        a == IF HasCol(df0, ValueCol) THEN df0
             ELSE IF preferred # <<>> THEN Rename(df0, preferred[1], ValueCol)
             ELSE IF numeric_cols # <<>> THEN Rename(df0, numeric_cols[1], ValueCol)
             ELSE df0
        like == SelectSeq(a.cols, StateLike)
    IN  IF HasCol(a, StateCol) \/ like = <<>> THEN a ELSE Rename(a, like[1], StateCol)

\* melt_wide_to_long melting the first year column only
MeltFirstYearColumn(t, year_cols, id_vars) ==
    Table(id_vars \o <<YearCol, ValueCol>>,
          [j \in DOMAIN t.rows |->
              [i \in DOMAIN id_vars |-> t.rows[j][ColIndex(t, id_vars[i])]]
              \o <<Num(R(DigitsToInt(FirstFourDigits(year_cols[1])))),
                   t.rows[j][ColIndex(t, year_cols[1])]>>])

\* melt_wide_to_long
MeltWideToLong(t, year_cols, id_vars) ==
    LET n == Len(t.rows)
        found == SelectSeq(year_cols, LAMBDA c : FirstFourDigits(c) # <<>>)
    IN  Table(id_vars \o <<YearCol, ValueCol>>,
              [j \in 1..(Len(found) * n) |->
                  LET yc == found[((j - 1) \div n) + 1]
                      row == t.rows[((j - 1) % n) + 1]
                  IN  [i \in DOMAIN id_vars |-> row[ColIndex(t, id_vars[i])]]
                      \o <<Num(R(DigitsToInt(FirstFourDigits(yc)))),
                           row[ColIndex(t, yc)]>>])

TmlReturn(t) == [ok |-> TRUE, t |-> t]
TmlRaise == [ok |-> FALSE, t |-> Table(<<>>, <<>>)]

\* try_make_long, lines 103-133: the wide path; `returned` tells whether it
\* returned
WidePath(df0) ==
    LET year_cols == DetectYearColumns(df0.cols)
        ids == SelectSeq(df0.cols, LAMBDA c : ~IsYearLabel(c))
        indexed == IF ids # <<>> THEN df0
                   ELSE Table(<<IndexCol>> \o df0.cols,
                              [r \in DOMAIN df0.rows |->
                                  <<Num(R(r - 1))>> \o df0.rows[r]])
        id_vars == IF ids # <<>> THEN ids ELSE <<IndexCol>>
        like == SelectSeq(id_vars, StateLike)
        state_col == IF like # <<>> THEN like[1] ELSE id_vars[1]
    IN  IF year_cols = <<>> THEN [returned |-> FALSE, res |-> TmlReturn(df0)]
        ELSE IF HasCol(indexed, ValueCol) THEN [returned |-> TRUE, res |-> TmlRaise]
        ELSE LET long == MeltWideToLong(indexed, year_cols, id_vars)
                 named == IF state_col # <<>> THEN Rename(long, state_col, StateCol)
                          ELSE SetConst(long, StateCol, Txt(UnknownLower))
             IN  IF HasLongCols(named)
                 THEN [returned |-> TRUE, res |-> TmlReturn(Select(named, LongCols))]
                 ELSE [returned |-> FALSE, res |-> TmlReturn(df0)]

\* re.search(r"\byear\b|\byr\b", c, re.I) or re.match(r"^\d{4}$", str(c))
IsYearCand(c) ==
    \/ WordSearch(YearCol, Lower(c))
    \/ WordSearch(<<"y", "r">>, Lower(c))
    \/ Len(c) = 4 /\ IsDigits(c)

\* try_make_long, lines 147-180: the fallback heuristics
FallbackPath(df0) ==
    LET cols == df0.cols
        ycs == SelectSeq(cols, IsYearCand)
        year_cand == IF ycs = <<>> THEN <<>> ELSE ycs[1]
        numeric == SelectSeq(cols, LAMBDA c : IsNumericDtype(df0, c))
        others == SelectSeq(numeric, LAMBDA c : c # year_cand)
        value_cand == IF others # <<>> THEN others[1]
                      ELSE IF numeric # <<>> THEN numeric[Len(numeric)]
                      ELSE <<>>
        renamed == [df0 EXCEPT !.cols = [i \in DOMAIN cols |->
                       IF cols[i] = value_cand THEN ValueCol
                       ELSE IF cols[i] = year_cand THEN YearCol
                       ELSE cols[i]]]
        like == SelectSeq(cols, StateLikeFallback)
        df_try == IF like # <<>> THEN Rename(renamed, like[1], StateCol)
                  ELSE SetConst(renamed, StateCol, Txt(UnknownLower))
    IN  IF year_cand = <<>> \/ value_cand = <<>> THEN TmlReturn(df0)
        ELSE IF ~HasCol(df_try, YearCol) \/ ~HasCol(df_try, ValueCol) THEN TmlRaise
        ELSE LET kept == DropMissing(ToNumericCol(ToNumericCol(df_try, YearCol),
                                                  ValueCol))
             IN  IF kept.rows = <<>> THEN TmlReturn(df0)
                 ELSE IF ~CanCastYear(kept) \/ ~HasCol(kept, StateCol) THEN TmlRaise
                 ELSE TmlReturn(Select(YearAsInt(kept), LongCols))

\* try_make_long: the table it returns, or the exception that leaves it
TryMakeLong(raw) ==
    LET df0 == StandardizeColumns(raw)
        df1 == IF HasCol(df0, YearCol) THEN LongRenames(df0) ELSE df0
    IN  IF HasCol(df0, YearCol) /\ HasLongCols(df1) THEN TmlReturn(Select(df1, LongCols))
        ELSE LET w == WidePath(df1)
             IN  IF w.returned THEN w.res ELSE FallbackPath(df1)

\* str() of a non-negative integer
RECURSIVE IntToStr(_)
IntToStr(n) ==
    IF n < 10 THEN <<Alphabet[CharCode("0") + n]>>
    ELSE Append(IntToStr(n \div 10), Alphabet[CharCode("0") + (n % 10)])

\* str() of a cell: its text, or the digits of a whole number
StrOfCell(c) ==
    IF c.t = "text" THEN c.s
    ELSE IF ~IsFinite(c.v) THEN <<"i", "n", "f">>
    ELSE IF c.v.n < 0 THEN <<"-">> \o IntToStr(-Trunc(c.v))
    ELSE IntToStr(Trunc(c.v))

\* normalize_state without the title-casing
NormalizeStateAsTyped(c) ==
    IF IsNa(c) THEN Unknown
    ELSE SubRuns(Strip(StrOfCell(c)), Spaces, " ")

\* normalize_state
NormalizeState(c) ==
    IF IsNa(c) THEN Unknown
    ELSE Title(SubRuns(Strip(StrOfCell(c)), Spaces, " "))

OutCols == <<StateCol, YearCol, ValueCol, SourceFileCol>>

\* what try_make_long gave for a file, when it was called
NotReshaped == [called |-> FALSE, ok |-> FALSE, t |-> Table(<<>>, <<>>)]
Reshaped(tml) == [called |-> TRUE, ok |-> tml.ok, t |-> tml.t]

FileResult(status, t) == [status |-> status, part |-> t, long |-> NotReshaped]
NoPart == Table(OutCols, <<>>)

\* process_all, lines 214-234: from the coercion of the year on
CleanLong(long, name) ==
    LET y == ToNumericCol(long, YearCol)
        numeric_cols == SelectSeq(y.cols, LAMBDA c : IsNumericDtype(y, c))
        v == IF HasCol(y, ValueCol) THEN y ELSE Rename(y, numeric_cols[1], ValueCol)
    IN  IF ~HasCol(y, ValueCol) /\ numeric_cols = <<>> THEN FileResult("no numeric column", NoPart)
        ELSE IF ~HasCol(v, YearCol) THEN FileResult("failed", NoPart)
        ELSE LET kept == DropMissing(SetConst(ToNumericCol(v, ValueCol),
                                              SourceFileCol, Num(R(name))))
             IN  IF kept.rows = <<>> THEN FileResult("no valid rows", NoPart)
                 ELSE IF ~CanCastYear(kept) THEN FileResult("failed", NoPart)
                 ELSE FileResult("processed", Select(YearAsInt(kept), OutCols))

\* process_all, lines 198-237: one pass of the loop over the files
ProcessFile(f, name) ==
    IF ~f.readable \/ f.table.rows = <<>> \/ f.table.cols = <<>>
    THEN FileResult("skipped", NoPart)
    ELSE Bind(TryMakeLong(f.table), LAMBDA tml :
            [(IF ~tml.ok THEN FileResult("failed", NoPart)
              ELSE IF ~HasCol(tml.t, YearCol) THEN FileResult("no year column", NoPart)
              ELSE LET long == IF HasCol(tml.t, StateCol) THEN tml.t
                               ELSE SetConst(tml.t, StateCol, Txt(Unknown))
                       st == ColIndex(long, StateCol)
                       named == [long EXCEPT !.rows = [r \in DOMAIN long.rows |->
                                    [long.rows[r] EXCEPT ![st] = Txt(NormalizeState(@))]]]
                   IN  CleanLong(named, name))
             EXCEPT !.long = Reshaped(tml)])

\* row a sorts before row b, or ties with it, by (state, year)
RowLE(a, b) ==
    \/ StrLess(a[1].s, b[1].s)
    \/ a[1].s = b[1].s /\ a[2].v.n <= b[2].v.n

RECURSIVE InsertRow(_, _)
InsertRow(p, s) ==
    IF s = <<>> THEN <<p>>
    ELSE IF ~RowLE(Head(s), p) THEN <<p>> \o s
    ELSE <<Head(s)>> \o InsertRow(p, Tail(s))

\* combined.sort_values(["state", "year"]): stable
RECURSIVE SortValues(_)
SortValues(rows) ==
    IF rows = <<>> THEN <<>>
    ELSE InsertRow(rows[Len(rows)], SortValues(SubSeq(rows, 1, Len(rows) - 1)))

RECURSIVE ConcatParts(_)
ConcatParts(results) ==
    IF results = <<>> THEN <<>>
    ELSE Head(results).part.rows \o ConcatParts(Tail(results))

NoFilesFound == "No files found"
NoUsableData == "No usable data found after processing files."
NotRun == [phase |-> "none", error |-> "", files |-> <<>>, long |-> <<>>,
           wrote |-> FALSE, csv |-> NoPart, rows |-> 0, years_min |-> 0,
           years_max |-> 0]

\* process_all giving up on the whole run at the first file it cannot use
ProcessAllOrNothing(files) ==
    IF files = <<>> THEN [NotRun EXCEPT !.phase = "done", !.error = NoFilesFound]
    ELSE Bind([i \in DOMAIN files |-> ProcessFile(files[i], i)], LAMBDA results :
            Bind(DropMissing(Table(OutCols, ConcatParts(results))), LAMBDA combined :
              IF \E i \in DOMAIN results : results[i].status # "processed"
              THEN [NotRun EXCEPT !.phase = "done", !.error = NoUsableData,
                                  !.files = [i \in DOMAIN results |-> results[i].status],
                                  !.long = [i \in DOMAIN results |-> results[i].long]]
              ELSE Bind(SortValues(YearAsInt(combined).rows), LAMBDA sorted :
                     [phase |-> "done", error |-> "",
                      files |-> [i \in DOMAIN results |-> results[i].status],
                      long |-> [i \in DOMAIN results |-> results[i].long],
                      wrote |-> TRUE,
                      csv |-> Table(OutCols, sorted),
                      rows |-> Len(sorted),
                      years_min |-> CHOOSE y \in {sorted[i][2].v.n : i \in DOMAIN sorted} :
                                       \A i \in DOMAIN sorted : y <= sorted[i][2].v.n,
                      years_max |-> CHOOSE y \in {sorted[i][2].v.n : i \in DOMAIN sorted} :
                                       \A i \in DOMAIN sorted : y >= sorted[i][2].v.n])))

\* process_all: `files` is what glob finds, in its order
ProcessAll(files) ==
    IF files = <<>> THEN [NotRun EXCEPT !.phase = "done", !.error = NoFilesFound]
    ELSE Bind([i \in DOMAIN files |-> ProcessFile(files[i], i)], LAMBDA results :
            Bind(DropMissing(Table(OutCols, ConcatParts(results))), LAMBDA combined :
              IF \A i \in DOMAIN results : results[i].status # "processed"
              THEN [NotRun EXCEPT !.phase = "done", !.error = NoUsableData,
                                  !.files = [i \in DOMAIN results |-> results[i].status],
                                  !.long = [i \in DOMAIN results |-> results[i].long]]
              ELSE Bind(SortValues(YearAsInt(combined).rows), LAMBDA sorted :
                     [phase |-> "done", error |-> "",
                      files |-> [i \in DOMAIN results |-> results[i].status],
                      long |-> [i \in DOMAIN results |-> results[i].long],
                      wrote |-> TRUE,
                      csv |-> Table(OutCols, sorted),
                      rows |-> Len(sorted),
                      years_min |-> CHOOSE y \in {sorted[i][2].v.n : i \in DOMAIN sorted} :
                                       \A i \in DOMAIN sorted : y <= sorted[i][2].v.n,
                      years_max |-> CHOOSE y \in {sorted[i][2].v.n : i \in DOMAIN sorted} :
                                       \A i \in DOMAIN sorted : y >= sorted[i][2].v.n])))

-----------------------------------------------------------------------------
(* The raw files process_all is exercised on *)

MaxTableRows == 2
MaxFiles == 2

StateCells ==
    {Txt(<<"g", "o", "a">>), Txt(<<"G", "O", "A", " ">>),
     Txt(<<" ", "G", "O", "A", " ", " ", "e", "a", "s", "t", " ">>), Txt(<<" ">>),
     Missing}
YearCells == {Num(R(2001)), Num(R(99)), Num(PosInf), Missing,
              Txt(<<"2", "0", "0", "1", "-", "0", "2">>)}
ValueCells == {Num(R(1)), Num(PosInf), Missing, Txt(<<"x">>)}
CellsOf(kind) ==
    IF kind = "state" THEN StateCells
    ELSE IF kind = "year" THEN YearCells
    ELSE ValueCells
\* the cell of an unremarkable row
PlainCell(kind) ==
    IF kind = "state" THEN Txt(Goa)
    ELSE IF kind = "year" THEN Num(R(2002))
    ELSE Num(R(4))

ColSpec(label, kind) == [label |-> label, kind |-> kind]
\* column layouts: long, long without a value label, wide, wide with season
\* labels, one for the fallback heuristics, one without years, two without
\* an entity column
LongLayout ==
    <<ColSpec(<<"S", "t", "a", "t", "e">>, "state"),
      ColSpec(<<"Y", "e", "a", "r">>, "year"),
      ColSpec(<<"V", "a", "l", "u", "e">>, "value")>>
LongLevelLayout ==
    <<ColSpec(<<"N", "a", "m", "e">>, "state"),
      ColSpec(<<"Y", "e", "a", "r">>, "year"),
      ColSpec(<<"L", "e", "v", "e", "l">>, "value")>>
WideLayout ==
    <<ColSpec(<<"S", "t", "a", "t", "e">>, "state"),
      ColSpec(<<"2", "0", "0", "1">>, "value"),
      ColSpec(<<"2", "0", "0", "2">>, "value")>>
SeasonLayout ==
    <<ColSpec(<<"S", "t", "a", "t", "e">>, "state"),
      ColSpec(<<"2", "0", "0", "1", "-", "0", "2">>, "value")>>
FallbackLayout ==
    <<ColSpec(<<"R", "e", "g", "i", "o", "n">>, "state"),
      ColSpec(<<"Y", "r">>, "year"),
      ColSpec(<<"Q", "t", "y">>, "value")>>
NoYearLayout ==
    <<ColSpec(<<"S", "t", "a", "t", "e">>, "state"),
      ColSpec(<<"Q", "t", "y">>, "value")>>
NoStateLayout ==
    <<ColSpec(<<"Y", "e", "a", "r">>, "year"),
      ColSpec(<<"V", "a", "l", "u", "e">>, "value")>>
YearsOnlyLayout ==
    <<ColSpec(<<"2", "0", "0", "1">>, "value"),
      ColSpec(<<"2", "0", "0", "2">>, "value")>>
Layouts == {LongLayout, LongLevelLayout, WideLayout, SeasonLayout,
            FallbackLayout, NoYearLayout, NoStateLayout, YearsOnlyLayout}

LabelsOf(layout) == [i \in DOMAIN layout |-> layout[i].label]
PlainRow(layout) == [i \in DOMAIN layout |-> PlainCell(layout[i].kind)]
AllCells == StateCells \cup YearCells \cup ValueCells
VariedRows(layout) ==
    {r \in [DOMAIN layout -> AllCells] :
        \A i \in DOMAIN layout : r[i] \in CellsOf(layout[i].kind)}

\* the tables of a layout: at most MaxTableRows rows, one of them free and
\* the others unremarkable
TablesOf(layout) ==
    {Table(LabelsOf(layout), <<>>)}
    \cup {Table(LabelsOf(layout),
                [i \in 1..n |-> IF i = pos THEN v ELSE PlainRow(layout)]) :
            n \in 1..MaxTableRows, pos \in 1..MaxTableRows, v \in VariedRows(layout)}

File(table) == [readable |-> TRUE, table |-> table]
Unreadable == [readable |-> FALSE, table |-> Table(<<>>, <<>>)]
PlainFiles == {Unreadable, File(Table(LabelsOf(LongLayout), <<PlainRow(LongLayout)>>))}
VariedFiles == {File(t) : t \in UNION {TablesOf(l) : l \in Layouts}}

\* raw directories: at most MaxFiles files, one of them free
RawDirs ==
    {<<>>}
    \cup {[i \in 1..n |-> IF i = pos THEN v ELSE g[i]] :
            n \in 1..MaxFiles, pos \in 1..MaxFiles, v \in VariedFiles,
            g \in [1..MaxFiles -> PlainFiles]}

InitProcess ==
    /\ call = NoCall
    /\ df = <<>>
    /\ csvFiles = <<>>
    /\ plotFiles = {}
    /\ mainOut = NoMain
    /\ snap = <<>>
    /\ proj = Idle
    /\ apiResp = Idle
    /\ snapOut = Idle
    /\ rawDir \in RawDirs
    /\ processed = NotRun
    /\ findCall = Idle
    /\ csvIn = Idle
    /\ db = Idle
    /\ ingested = Idle
    /\ normCall = Idle
    /\ fetch = Idle
    /\ served = Idle

\* python src/process_data.py
ProcessAllRun ==
    /\ processed.phase = "none"
    /\ \E res \in {ProcessAll(rawDir)} : processed' = res
    /\ UNCHANGED <<call, df, csvFiles, plotFiles, mainOut, snap, proj, apiResp,
                   snapOut, rawDir,
                   findCall, csvIn, db, ingested,
                   normCall, fetch, served>>

NextProcess == ProcessAllRun

SpecProcess == InitProcess /\ [][NextProcess]_vars

-----------------------------------------------------------------------------
(* process_data.try_make_long called twice on the frame the caller holds *)

\* what a call leaves behind, as if the renaming of standardize_columns were
\* applied to the caller's frame instead of to a copy of it
TryMakeLongOnCallerFrame(raw) ==
    [ret |-> TryMakeLong(raw), df |-> StandardizeColumns(raw)]

\* try_make_long(df): what it returns (or that it raised) and the frame the
\* caller holds afterwards. df0 = df.copy() comes first and every later
\* assignment (rename, reset_index, df_try["state"] = ..., long["state"] = ...)
\* is made to df0 or to a frame derived from it, never to df
TryMakeLongCall(raw) == [ret |-> TryMakeLong(raw), df |-> raw]

Frames == UNION {TablesOf(l) : l \in Layouts}
NotCalled == [ret |-> TmlRaise, df |-> Table(<<>>, <<>>)]

InitNormalize ==
    /\ call = NoCall
    /\ df = <<>>
    /\ csvFiles = <<>>
    /\ plotFiles = {}
    /\ mainOut = NoMain
    /\ snap = <<>>
    /\ proj = Idle
    /\ apiResp = Idle
    /\ snapOut = Idle
    /\ rawDir = <<>>
    /\ processed = NotRun
    /\ findCall = Idle
    /\ csvIn = Idle
    /\ db = Idle
    /\ ingested = Idle
    /\ normCall \in {[phase |-> "input", given |-> t, df |-> t,
                      first |-> NotCalled.ret, second |-> NotCalled.ret] : t \in Frames}
    /\ fetch = Idle
    /\ served = Idle

\* long = try_make_long(df)
NormalizeFirst ==
    /\ normCall.phase = "input"
    /\ \E c \in {TryMakeLongCall(normCall.df)} :
          normCall' = [normCall EXCEPT !.phase = "once", !.df = c.df, !.first = c.ret]
    /\ UNCHANGED <<call, df, csvFiles, plotFiles, mainOut, snap, proj, apiResp,
                   snapOut, rawDir, processed, findCall, csvIn, db, ingested,
                   fetch, served>>

\* the same call again, on the frame the first call left
NormalizeAgain ==
    /\ normCall.phase = "once"
    /\ \E c \in {TryMakeLongCall(normCall.df)} :
          normCall' = [normCall EXCEPT !.phase = "twice", !.df = c.df, !.second = c.ret]
    /\ UNCHANGED <<call, df, csvFiles, plotFiles, mainOut, snap, proj, apiResp,
                   snapOut, rawDir, processed, findCall, csvIn, db, ingested,
                   fetch, served>>

NextNormalize == NormalizeFirst \/ NormalizeAgain

SpecNormalize == InitNormalize /\ [][NextNormalize]_vars

-----------------------------------------------------------------------------
(* ingest_csv.py *)

MaxCols == 3

\* re.compile(patt): the patterns of the model are made of literal characters
\* and of groups in parentheses; unbalanced parentheses raise re.error
RECURSIVE Balanced(_, _)
Balanced(patt, open) ==
    IF patt = <<>> THEN open = 0
    ELSE IF Head(patt) = "(" THEN Balanced(Tail(patt), open + 1)
    ELSE IF Head(patt) = ")" THEN open > 0 /\ Balanced(Tail(patt), open - 1)
    ELSE Balanced(Tail(patt), open)
RegexCompiles(patt) == Balanced(patt, 0)
\* regex.search(orig) with flags=re.I: a group matches what is inside it
RegexSearch(patt, orig) ==
    Contains(Lower(SelectSeq(patt, LAMBDA c : c \notin {"(", ")"})), Lower(orig))

NotFound == [found |-> FALSE, col |-> <<>>]
Found(c) == [found |-> TRUE, col |-> c]

\* find_column with the loops over patterns and columns exchanged
RECURSIVE FindColumnByColumn(_, _)
FindColumnByColumn(columns, patterns) ==
    IF columns = <<>> THEN NotFound
    ELSE IF \E p \in DOMAIN patterns :
                \/ Contains(Lower(patterns[p]), Lower(Head(columns)))
                \/ RegexCompiles(patterns[p]) /\ RegexSearch(patterns[p], Head(columns))
         THEN Found(Head(columns))
         ELSE FindColumnByColumn(Tail(columns), patterns)

\* find_column: None is NotFound
RECURSIVE FindColumn(_, _)
FindColumn(columns, patterns) ==
    IF patterns = <<>> THEN NotFound
    ELSE LET patt == Head(patterns)
             p_low == Lower(patt)
             in_low == SelectSeq(columns, LAMBDA c : Contains(p_low, Lower(c)))
             searched == IF RegexCompiles(patt)
                         THEN SelectSeq(columns, LAMBDA c : RegexSearch(patt, c))
                         ELSE <<>>
         IN  IF in_low # <<>> THEN Found(in_low[1])
             ELSE IF searched # <<>> THEN Found(searched[1])
             ELSE FindColumn(columns, Tail(patterns))

\* the pattern lists of build_normalized_df
StatePatterns ==
    <<<<"n", "a", "m", "e", " ", "o", "f", " ", "s", "t", "a", "t", "e", "/",
        "u", "t">>,
      <<"n", "a", "m", "e", " ", "o", "f", " ", "s", "t", "a", "t", "e">>,
      <<"s", "t", "a", "t", "e", "/", "u", "t">>,
      <<"s", "t", "a", "t", "e">>,
      <<"n", "a", "m", "e">>>>
AvailabilityPatterns ==
    <<<<"t", "o", "t", "a", "l", " ", "a", "n", "n", "u", "a", "l", " ", "g",
        "r", "o", "u", "n", "d", "w", "a", "t", "e", "r", " ", "r", "e", "c",
        "h", "a", "r", "g", "e">>,
      <<"t", "o", "t", "a", "l", " ", "a", "n", "n", "u", "a", "l", " ", "g",
        "r", "o", "u", "n", "d", "w", "a", "t", "e", "r", " ", "r", "e", "c",
        "h", "a", "r", "g", "e", " ", "(", "b", "c", "m", ")">>,
      <<"t", "o", "t", "a", "l", " ", "a", "n", "n", "u", "a", "l", " ", "g",
        "r", "o", "u", "n", "d", "w", "a", "t", "e", "r", " ", "r", "e", "c",
        "h", "a", "r", "g", "e", ",">>,
      <<"t", "o", "t", "a", "l", " ", "a", "n", "n", "u", "a", "l", " ", "g",
        "r", "o", "u", "n", "d", "w", "a", "t", "e", "r", " ", "r", "e", "c",
        "h", "a", "r", "g", "e">>>>
ExtractionPatterns ==
    <<<<"t", "o", "t", "a", "l", " ", "a", "n", "n", "u", "a", "l", " ", "e",
        "x", "t", "r", "a", "c", "t", "i", "o", "n">>,
      <<"t", "o", "t", "a", "l", " ", "a", "n", "n", "u", "a", "l", " ", "e",
        "x", "t", "r", "a", "c", "t", "i", "o", "n", " ", "(", "b", "c", "m",
        ")">>,
      <<"t", "o", "t", "a", "l", " ", "a", "n", "n", "u", "a", "l", " ", "e",
        "x", "t", "r", "a", "c", "t", "i", "o", "n", ",">>,
      <<"t", "o", "t", "a", "l", " ", "a", "n", "n", "u", "a", "l", " ", "e",
        "x", "t", "r", "a", "c", "t", "i", "o", "n">>>>
StagePatterns ==
    <<<<"s", "t", "a", "g", "e", " ", "o", "f", " ", "g", "w", " ", "e", "x",
        "t", "r", "a", "c", "t", "i", "o", "n">>,
      <<"s", "t", "a", "g", "e", " ", "o", "f", " ", "g", "w", " ", "e", "x",
        "t", "r", "a", "c", "t", "i", "o", "n", " ", "(", "%", ")">>,
      <<"s", "t", "a", "g", "e", " ", "o", "f", " ", "e", "x", "t", "r", "a",
        "c", "t", "i", "o", "n">>,
      <<"s", "t", "a", "g", "e", " ", "o", "f", " ", "g", "w", " ", "e", "x",
        "t", "r", "a", "c", "t", "i", "o", "n", " ", "%">>>>

\* is_numeric_dtype of a column read_csv gave: a column without a cell is of
\* dtype object
IsNumericColumn(t, i) ==
    t.rows # <<>> /\ \A r \in DOMAIN t.rows : t.rows[r][i].t = "num"

\* .astype(str) of a cell
AsStr(c) == IF IsNa(c) THEN <<"n", "a", "n">> ELSE StrOfCell(c)

NoRoles == [state |-> NotFound, availability |-> NotFound,
            extraction |-> NotFound, stage |-> NotFound]

\* build_normalized_df, lines 42-73: the column of every role
Roles(t) ==
    LET by_pattern == FindColumn(t.cols, StatePatterns)
        non_numeric == SelectSeq([i \in DOMAIN t.cols |-> i],
                                 LAMBDA i : ~IsNumericColumn(t, i))
    IN  [state |-> IF by_pattern.found THEN by_pattern
                   ELSE IF non_numeric # <<>> THEN Found(t.cols[non_numeric[1]])
                   ELSE NotFound,
         availability |-> FindColumn(t.cols, AvailabilityPatterns),
         extraction |-> FindColumn(t.cols, ExtractionPatterns),
         stage |-> FindColumn(t.cols, StagePatterns)]

RawPrefix == <<"r", "a", "w", "_">>
\* "raw_" + re.sub(r"[^\w]", "_", c).lower()
RawName(c) == RawPrefix \o Lower([i \in DOMAIN c |-> IF c[i] \in WordChars THEN c[i] ELSE "_"])

NormCols == <<StateCol, <<"a", "v", "a", "i", "l", "a", "b", "i", "l", "i", "t", "y">>,
              <<"e", "x", "t", "r", "a", "c", "t", "i", "o", "n">>,
              <<"s", "t", "a", "g", "e">>>>

\* build_normalized_df, lines 75-93, the state column being known: assigning
\* to a name norm already has replaces that column
NormTable(t, roles) ==
    LET claimed == {roles.state.col} \cup
                   {r.col : r \in {x \in {roles.availability, roles.extraction,
                                          roles.stage} : x.found}}
        rest == SelectSeq([i \in DOMAIN t.cols |-> i], LAMBDA i : t.cols[i] \notin claimed)
        \* the last column of each raw name, at the place of the first
        first == SelectSeq(rest, LAMBDA i :
                    \A j \in DOMAIN t.cols :
                        (j < i /\ t.cols[j] \notin claimed) => RawName(t.cols[j]) # RawName(t.cols[i]))
        last(i) == CHOOSE j \in Range(rest) :
                      /\ RawName(t.cols[j]) = RawName(t.cols[i])
                      /\ \A k \in Range(rest) : RawName(t.cols[k]) = RawName(t.cols[i]) => k <= j
        metric(row, role) == IF role.found THEN ToNumericCell(row[ColIndex(t, role.col)])
                             ELSE Missing
    IN  Table(NormCols \o [k \in DOMAIN first |-> RawName(t.cols[first[k]])],
              [r \in DOMAIN t.rows |->
                  <<Txt(Strip(AsStr(t.rows[r][ColIndex(t, roles.state.col)]))),
                    metric(t.rows[r], roles.availability),
                    metric(t.rows[r], roles.extraction),
                    metric(t.rows[r], roles.stage)>>
                  \o [k \in DOMAIN first |-> t.rows[r][last(first[k])]]])

NoStateColumn == "Could not determine state column in CSV."
NormOk(roles, t) == [ok |-> TRUE, err |-> "", roles |-> roles, norm |-> t]
NormRaise(roles, msg) == [ok |-> FALSE, err |-> msg, roles |-> roles, norm |-> Table(<<>>, <<>>)]

\* build_normalized_df with the roles it chose
BuildNormalized(t) ==
    Bind(Roles(t), LAMBDA roles :
        IF ~roles.state.found THEN NormRaise(roles, NoStateColumn)
        ELSE NormOk(roles, NormTable(t, roles)))

NoTable == [exists |-> FALSE, t |-> Table(<<>>, <<>>)]
Stored(t) == [exists |-> TRUE, t |-> t]
NoDb == [states |-> NoTable, raw_snapshot |-> NoTable]
NotIngested == [phase |-> "none", exit |-> 0, err |-> "", roles |-> NoRoles,
                norm |-> Table(<<>>, <<>>), before |-> NoDb]
InputNotFound == "Input CSV not found"
InsertFailed == "sqlite3 raised while inserting"

\* what sqlite3 may do on the two to_sql calls: take every row, or raise while
\* the rows of one of the tables are inserted (an integer beyond 64 bits, a
\* full disk, a locked database)
SqlOutcomes == {"ok", "states insert raises", "raw_snapshot insert raises"}

\* to_sql(name, conn, if_exists="replace"): the old table is dropped and the
\* new one created before the rows are inserted in a transaction of their
\* own, which is rolled back when an insert raises
ToSql(t, raises) == IF raises THEN Stored(Table(t.cols, <<>>)) ELSE Stored(t)

\* ingest: the exit status of the process and the database it leaves, for
\* each thing sqlite3 may do
Ingest(input, database) ==
    IF ~input.isfile
    THEN [sql \in SqlOutcomes |->
            [db |-> database,
             out |-> [NotIngested EXCEPT !.phase = "done", !.exit = 2,
                                         !.err = InputNotFound, !.before = database]]]
    ELSE Bind(BuildNormalized(input.table), LAMBDA b :
            IF ~b.ok
            THEN [sql \in SqlOutcomes |->
                    [db |-> database,
                     out |-> [NotIngested EXCEPT !.phase = "done", !.exit = 1, !.err = b.err,
                                                 !.roles = b.roles, !.before = database]]]
            ELSE [sql \in SqlOutcomes |->
                    IF sql = "states insert raises"
                    THEN [db |-> [database EXCEPT !.states = ToSql(b.norm, TRUE)],
                          out |-> [phase |-> "done", exit |-> 1, err |-> InsertFailed,
                                   roles |-> b.roles, norm |-> b.norm, before |-> database]]
                    ELSE [db |-> [states |-> ToSql(b.norm, FALSE),
                                  raw_snapshot |-> ToSql(input.table, sql # "ok")],
                          out |-> [phase |-> "done", exit |-> IF sql = "ok" THEN 0 ELSE 1,
                                   err |-> IF sql = "ok" THEN "" ELSE InsertFailed,
                                   roles |-> b.roles, norm |-> b.norm, before |-> database]]])

-----------------------------------------------------------------------------
(* The snapshot files ingest_csv is exercised on *)

LabelState ==
    <<"S", "t", "a", "t", "e">>
LabelNameOfState ==
    <<"N", "a", "m", "e", " ", "o", "f", " ", "S", "t", "a", "t", "e", "/",
      "U", "T">>
LabelDistrict ==
    <<"D", "i", "s", "t", "r", "i", "c", "t">>
LabelExtraction ==
    <<"T", "o", "t", "a", "l", " ", "A", "n", "n", "u", "a", "l", " ", "E",
      "x", "t", "r", "a", "c", "t", "i", "o", "n", " ", "(", "B", "C", "M",
      ")">>
LabelStagePercent ==
    <<"S", "t", "a", "g", "e", " ", "o", "f", " ", "G", "W", " ", "E", "x",
      "t", "r", "a", "c", "t", "i", "o", "n", " ", "%">>
LabelStageParen ==
    <<"S", "t", "a", "g", "e", " ", "o", "f", " ", "G", "W", " ", "E", "x",
      "t", "r", "a", "c", "t", "i", "o", "n", " ", "(", "%", ")">>
LabelStateStage ==
    <<"S", "t", "a", "t", "e", " ", "S", "t", "a", "g", "e", " ", "o", "f",
      " ", "E", "x", "t", "r", "a", "c", "t", "i", "o", "n">>
TextLabels == {LabelState, LabelNameOfState, LabelDistrict}
NumberLabels ==
    {LabelExtraction,
     LabelStagePercent,
     LabelStageParen,
     LabelStateStage}
ColumnLabels == TextLabels \cup NumberLabels

\* the headers of a CSV: at most MaxCols distinct labels
Headers ==
    UNION {{h \in [1..n -> ColumnLabels] : \A i, j \in 1..n : i # j => h[i] # h[j]} :
              n \in 1..MaxCols}

\* the cell of row r under a label: a name, or a whole number
CsvCell(label, r) ==
    IF label \in TextLabels THEN Txt(SnapNames[((r - 1) % Len(SnapNames)) + 1])
    ELSE Num(R(r))
\* a CSV has its header only, or MaxTableRows rows
CsvTables ==
    {Table(h, [r \in 1..n |-> [i \in DOMAIN h |-> CsvCell(h[i], r)]]) :
        h \in Headers, n \in {0, MaxTableRows}}

NoInput == [isfile |-> FALSE, table |-> Table(<<>>, <<>>)]
CsvInput(t) == [isfile |-> TRUE, table |-> t]
CsvInputs == {NoInput} \cup {CsvInput(t) : t \in CsvTables}

\* the database before the run: none, or the tables of an earlier run
EarlierTable == Table(<<LabelState, LabelExtraction>>, <<<<Txt(Kerala), Num(R(7))>>>>)
EarlierDb == Bind(Ingest(CsvInput(EarlierTable), NoDb), LAMBDA runs : runs["ok"].db)
Databases == {NoDb, EarlierDb}

\* pattern lists a caller of find_column may pass: those of
\* build_normalized_df, and one that asks for the percent column first
PercentFirstPatterns ==
    <<<<"s", "t", "a", "g", "e", " ", "o", "f", " ", "g", "w", " ", "e", "x",
        "t", "r", "a", "c", "t", "i", "o", "n", " ", "(", "%", ")">>,
      <<"s", "t", "a", "g", "e", " ", "o", "f", " ", "e", "x", "t", "r", "a",
        "c", "t", "i", "o", "n">>>>
PatternLists ==
    {StatePatterns, AvailabilityPatterns, ExtractionPatterns, StagePatterns,
     PercentFirstPatterns, <<>>}

NoFind == [phase |-> "none", columns |-> <<>>, patterns |-> <<>>, res |-> NotFound]
NoCsv == [phase |-> "none", input |-> NoInput]

\* either a call of find_column, or a run of the script on a CSV and a database
InitIngest ==
    /\ call = NoCall
    /\ df = <<>>
    /\ csvFiles = <<>>
    /\ plotFiles = {}
    /\ mainOut = NoMain
    /\ snap = <<>>
    /\ proj = Idle
    /\ apiResp = Idle
    /\ snapOut = Idle
    /\ rawDir = <<>>
    /\ processed = Idle
    /\ ingested = NotIngested
    /\ normCall = Idle
    /\ fetch = Idle
    /\ served = Idle
    /\ \/ /\ findCall \in {[phase |-> "input", columns |-> h, patterns |-> p,
                            res |-> NotFound] : h \in Headers \cup {<<>>}, p \in PatternLists}
          /\ csvIn = NoCsv
          /\ db = NoDb
       \/ /\ findCall = NoFind
          /\ csvIn \in {[phase |-> "input", input |-> i] : i \in CsvInputs}
          /\ db \in Databases

FindColumnCall ==
    /\ findCall.phase = "input"
    /\ findCall' = [findCall EXCEPT !.phase = "returned",
                                    !.res = FindColumn(findCall.columns, findCall.patterns)]
    /\ UNCHANGED <<call, df, csvFiles, plotFiles, mainOut, snap, proj, apiResp,
                   snapOut, rawDir, processed, csvIn, db, ingested,
                   normCall, fetch, served>>

\* python src/ingest_csv.py --input ... --db ...
IngestRun ==
    /\ csvIn.phase = "input"
    /\ ingested.phase = "none"
    /\ \E runs \in {Ingest(csvIn.input, db)} :
          \E sql \in SqlOutcomes :
              /\ db' = runs[sql].db
              /\ ingested' = runs[sql].out
    /\ UNCHANGED <<call, df, csvFiles, plotFiles, mainOut, snap, proj, apiResp,
                   snapOut, rawDir, processed, findCall, csvIn,
                   normCall, fetch, served>>

NextIngest == FindColumnCall \/ IngestRun

SpecIngest == InitIngest /\ [][NextIngest]_vars

-----------------------------------------------------------------------------
(* fetch_opencity.py *)

\* download_url(url, out_dir, session, tries=3)
DefaultTries == 3
\* resp.content[:512]
PeekBytes == 512
\* the longest list of candidate links find_data_links returns here
MaxLinks == 2

\* s[:n]
Slice(s, n) == SubSeq(s, 1, IF n < Len(s) THEN n ELSE Len(s))
\* s.startswith(prefix)
StartsWith(s, prefix) == Len(s) >= Len(prefix) /\ SubSeq(s, 1,
      Len(prefix)) = prefix
\* the position of the last c in s, 0 when there is none
LastIndex(s, c) ==
    IF \E i \in DOMAIN s : s[i] = c THEN CHOOSE i \in DOMAIN s :
                                              s[i] = c /\ \A j \in (i + 1)..Len(s) : s[j] # c
    ELSE 0
\* the position of the first character of s that is in set, Len(s) + 1 when
\* there is none
FirstIn(s, set) ==
    IF \E i \in DOMAIN s : s[i] \in set THEN CHOOSE i \in DOMAIN s :
                                                s[i] \in set /\ \A j \in 1..(i - 1) : s[j] \notin set
    ELSE Len(s) + 1
\* os.path.basename
Basename(p) == SubSeq(p, LastIndex(p, "/") + 1, Len(p))

SchemeSep == <<":", "/", "/">>
DownloadedFile == <<"d", "o", "w", "n", "l", "o", "a", "d", "e", "d", "_",
      "f", "i", "l", "e">>
\* urlparse(url).path of an absolute http URL: what follows the host, up to
\* the query or the fragment
UrlPath(url) ==
    LET i == CHOOSE k \in 1..(Len(url) - 2) : SubSeq(url, k,
          k + 2) = SchemeSep
        rest == SubSeq(url, i + 3, Len(url))
        from == FirstIn(rest, {"/", "?", "#"})
        tail == SubSeq(rest, from, Len(rest))
    IN  SubSeq(tail, 1, FirstIn(tail, {"?", "#"}) - 1)
\* filename_from_url
FilenameFromUrl(url) ==
    LET name == Basename(UrlPath(url)) IN IF name # <<>> THEN name ELSE DownloadedFile

\* os.path.splitext(fn)[1] is not empty: the last dot of the last path
\* component comes after a character that is not a dot
HasExt(fn) ==
    LET base == Basename(fn)
        dot == LastIndex(base, ".")
    IN  dot > 0 /\ \E j \in 1..(dot - 1) : base[j] # "."

ContentTypeExts ==
    {<<<<"t", "e", "x", "t", "/", "c", "s", "v">>, <<".", "c", "s", "v">>>>,
     <<<<"a", "p", "p", "l", "i", "c", "a", "t", "i", "o", "n", "/", "c",
           "s", "v">>, <<".", "c", "s", "v">>>>,
     <<<<"a", "p", "p", "l", "i", "c", "a", "t", "i", "o", "n", "/", "v",
           "n", "d", ".", "m", "s", "-", "e", "x", "c", "e", "l">>, <<".",
           "x", "l", "s">>>>,
     <<<<"a", "p", "p", "l", "i", "c", "a", "t", "i", "o", "n", "/", "v",
           "n", "d", ".", "o", "p", "e", "n", "x", "m", "l", "f", "o", "r",
           "m", "a", "t", "s", "-", "o", "f", "f", "i", "c", "e", "d", "o",
           "c", "u", "m", "e", "n", "t", ".", "s", "p", "r", "e", "a", "d",
           "s", "h", "e", "e", "t", "m", "l", ".", "s", "h", "e", "e", "t">>,
           <<".", "x", "l", "s", "x">>>>,
     <<<<"a", "p", "p", "l", "i", "c", "a", "t", "i", "o", "n", "/", "z",
           "i", "p">>, <<".", "z", "i", "p">>>>,
     <<<<"a", "p", "p", "l", "i", "c", "a", "t", "i", "o", "n", "/", "j",
           "s", "o", "n">>, <<".", "j", "s", "o", "n">>>>}
\* ext_from_content_type
ExtFromContentType(ct) ==
    IF ct = <<>> THEN <<>>
    ELSE LET key == Lower(Strip(SubSeq(ct, 1, FirstIn(ct, {";"}) - 1)))
         IN  IF \E m \in ContentTypeExts : m[1] = key
             THEN (CHOOSE m \in ContentTypeExts : m[1] = key)[2]
             ELSE <<>>

FilenameKey == <<"f", "i", "l", "e", "n", "a", "m", "e", "=">>
\* re.search(r'filename="?([^";]+)"?', cd): group 1 of the leftmost match, the
\* empty string when there is none
CdFilename(cd) ==
    LET start(i) == IF i + Len(FilenameKey) <= Len(cd) /\ cd[i + Len(FilenameKey)] = "\""
                    THEN i + Len(FilenameKey) + 1 ELSE i + Len(FilenameKey)
        group(i) == LET rest == SubSeq(cd, start(i), Len(cd))
                    IN  SubSeq(rest, 1, FirstIn(rest, {"\"", ";"}) - 1)
        hits == {i \in 1..(Len(cd) - Len(FilenameKey) + 1) :
                    /\ SubSeq(cd, i, i + Len(FilenameKey) - 1) = FilenameKey
                    /\ group(i) # <<>>}
    IN  IF hits = {} THEN <<>> ELSE group(CHOOSE i \in hits : \A j \in hits : i <= j)

FileTypeKeys ==
    {<<"t", "e", "x", "t", "/", "c", "s", "v">>, <<"a", "p", "p", "l", "i",
          "c", "a", "t", "i", "o", "n", "/", "c", "s", "v">>, <<"e", "x",
          "c", "e", "l">>, <<"s", "p", "r", "e", "a", "d", "s", "h", "e",
          "e", "t">>, <<"z", "i", "p">>, <<"j", "s", "o", "n">>}
Doctype == <<"<", "!", "d", "o", "c", "t", "y", "p", "e">>
HtmlTag == <<"<", "h", "t", "m", "l">>
ScriptTag == <<"<", "s", "c", "r", "i", "p", "t">>
\* is_probable_file_response
IsProbableFileResponse(resp) ==
    LET ct == Lower(resp.ct)
        head == Lower(LStrip(Slice(resp.content, PeekBytes)))
    IN  IF \E k \in FileTypeKeys : Contains(k, ct) THEN TRUE
        ELSE IF StartsWith(head, Doctype) \/ StartsWith(head, HtmlTag)
                \/ Contains(ScriptTag, head) THEN FALSE
        ELSE TRUE

\* lines 101-112 of download_url: the name the response is saved under
SavedName(resp) ==
    LET named == IF resp.cd # <<>> THEN CdFilename(resp.cd) ELSE <<>>
        fn == IF named # <<>> THEN named ELSE FilenameFromUrl(resp.url)
    IN  IF HasExt(fn) THEN fn ELSE fn \o ExtFromContentType(resp.ct)

\* session.get: an exception, or a response
GetRaises(exc) == [raised |-> TRUE, exc |-> exc, status |-> 0, ct |-> <<>>,
                   cd |-> <<>>, url |-> <<>>, content |-> <<>>,
                         links |-> <<>>]
Response(status, ct, cd, url, content) ==
    [raised |-> FALSE, exc |-> "", status |-> status, ct |-> ct, cd |-> cd,
     url |-> url, content |-> content, links |-> <<>>]
ConnectionError == "ConnectionError"
HTTPError == "HTTPError"
ReturnedHtml == "RuntimeError: URL returned HTML (not a data file)"
OsError == "OSError"
NoneRaised == "TypeError: exceptions must derive from BaseException"

\* open(out_path, "wb") and fh.write(content): the file is written, or open
\* raises and nothing is created, or write raises after open has created the
\* file
DiskOutcomes == {"saved", "open raises", "write raises"}
DataFile(ts, fn, content) == [ts |-> ts, fn |-> fn, content |-> content]
\* a directory after a file is opened for writing under a name and content
\* is written to it
WriteFile(dir, file) ==
    {f \in dir : ~(f.ts = file.ts /\ f.fn = file.fn)} \cup {file}

\* one pass of the loop of download_url on what session.get gave and on what
\* the disk does; st is the state the earlier passes left
Attempt(url, attempt, got, disk, st) ==
    LET fail(exc, dir) ==
            [returned |-> FALSE, path |-> DataFile(0, <<>>, <<>>),
                  last_exc |-> exc,
             dir |-> dir, clock |-> st.clock + attempt,
             log |-> Append(st.log, [url |-> url, attempt |-> attempt,
                   got |-> got,
                                     saved |-> FALSE, exc |-> exc,
                                           dir |-> dir])]
        file == DataFile(st.clock, SavedName(got), got.content)
    IN  IF got.raised THEN fail(got.exc, st.dir)
        ELSE IF got.status >= 400 THEN fail(HTTPError, st.dir)
        ELSE IF ~IsProbableFileResponse(got) THEN fail(ReturnedHtml, st.dir)
        ELSE IF disk = "open raises" THEN fail(OsError, st.dir)
        ELSE IF disk = "write raises"
             THEN fail(OsError, WriteFile(st.dir,
                   [file EXCEPT !.content = <<>>]))
        ELSE [returned |-> TRUE, path |-> file, last_exc |-> st.last_exc,
              dir |-> WriteFile(st.dir, file), clock |-> st.clock,
              log |-> Append(st.log, [url |-> url, attempt |-> attempt,
                    got |-> got,
                                      saved |-> TRUE, exc |-> "",
                                      dir |-> WriteFile(st.dir, file)])]

\* the passes attempt..tries of the loop of download_url, and the raise after
\* it: every way they can go. gets is what session.get(url) can give and disks
\* what the disk can do
RECURSIVE DownloadFrom(_, _, _, _, _, _)
DownloadFrom(url, attempt, tries, gets, disks, st) ==
    IF attempt > tries
    THEN {[st EXCEPT !.last_exc = IF st.last_exc = "" THEN NoneRaised ELSE st.last_exc]}
    ELSE UNION {LET a == Attempt(url, attempt, got, disk, st)
                IN  IF a.returned THEN {a}
                    ELSE DownloadFrom(url, attempt + 1, tries, gets, disks,
                          a) :
                  got \in gets, disk \in disks}

Fresh(dir, clock) ==
    [returned |-> FALSE, path |-> DataFile(0, <<>>, <<>>), last_exc |-> "",
     dir |-> dir, clock |-> clock, log |-> <<>>]
\* download_url(url, out_dir, session, tries)
DownloadUrl(url, tries, gets, disks, dir, clock) ==
    DownloadFrom(url, 1, tries, gets, disks, Fresh(dir, clock))

\* the web the model fetches from
PageUrl == <<"h", "t", "t", "p", ":", "/", "/", "h", "/", "p">>
LinkCsv == <<"h", "t", "t", "p", ":", "/", "/", "h", "/", "d", "/", "f", ".",
      "c", "s", "v">>
LinkGet == <<"h", "t", "t", "p", ":", "/", "/", "h", "/", "g", "e", "t", "?",
      "i", "d", "=", "1">>
LinkView == <<"h", "t", "t", "p", ":", "/", "/", "h", "/", "v", "i", "e",
      "w">>
RootUrl == <<"h", "t", "t", "p", ":", "/", "/", "h", "/">>
CsvResp == Response(200, <<"t", "e", "x", "t", "/", "c", "s", "v">>, <<>>,
      LinkCsv, <<"a", ",", "b">>)
JsonResp == Response(200, <<"a", "p", "p", "l", "i", "c", "a", "t", "i", "o",
      "n", "/", "j", "s", "o", "n">>, <<>>, LinkGet, <<"{", "}">>)
XlsResp ==
    Response(200, <<"a", "p", "p", "l", "i", "c", "a", "t", "i", "o", "n",
          "/", "v", "n", "d", ".", "m", "s", "-", "e", "x", "c", "e", "l">>,
          <<"a", "t", "t", "a", "c", "h", "m", "e", "n", "t", ";", " ", "f",
          "i", "l", "e", "n", "a", "m", "e", "=", "\"", "r", ".", "x", "l",
          "s", "\"">>, LinkGet, <<"P", "K">>)
PlainResp == Response(200, <<"t", "e", "x", "t", "/", "p", "l", "a", "i",
      "n">>, <<>>, RootUrl, <<"x">>)
HtmlDoctypeResp ==
    Response(200, <<"t", "e", "x", "t", "/", "h", "t", "m", "l", ";", " ",
          "c", "h", "a", "r", "s", "e", "t", "=", "u", "t", "f", "-", "8">>,
          <<>>, LinkView, <<"<", "!", "D", "O", "C", "T", "Y", "P", "E", " ",
          "h", "t", "m", "l", ">", "<", "h", "t", "m", "l", ">">>)
HtmlUpperResp == Response(200, <<"t", "e", "x", "t", "/", "h", "t", "m",
      "l">>, <<>>, LinkView, <<" ", "<", "H", "T", "M", "L", ">">>)
ScriptResp == Response(200, <<>>, <<>>, LinkView, <<"<", "p", ">", "<", "s",
      "c", "r", "i", "p", "t", ">">>)
XhtmlResp == Response(200, <<"t", "e", "x", "t", "/", "h", "t", "m", "l">>,
      <<>>, LinkView, <<"<", "?", "x", "m", "l", "?", ">", "<", "h", "t",
      "m", "l", ">">>)
NotFoundResp == Response(404, <<"t", "e", "x", "t", "/", "h", "t", "m",
      "l">>, <<>>, LinkView, <<"<", "h", "t", "m", "l", ">">>)
AnyOutcome ==
    {GetRaises(ConnectionError), NotFoundResp, CsvResp, JsonResp, XlsResp,
          PlainResp,
     HtmlDoctypeResp, HtmlUpperResp, ScriptResp, XhtmlResp}
\* what session.get can give for a URL
Web(url) ==
    IF url = LinkCsv THEN {GetRaises(ConnectionError), CsvResp}
    ELSE IF url = LinkGet THEN {JsonResp, HtmlDoctypeResp}
    ELSE IF url = LinkView THEN {HtmlDoctypeResp, XhtmlResp}
    ELSE IF url = PageUrl THEN {GetRaises(ConnectionError), CsvResp}
    ELSE AnyOutcome
PageDisks == {"saved", "write raises"}

PageSnapshot == <<"p", "a", "g", "e", "_", "s", "n", "a", "p", "s", "h", "o",
      "t", ".", "h", "t", "m", "l">>
NoDataLink == "RuntimeError: No direct data link found on page"
AllLinksFailed == "RuntimeError: All candidate links failed"
TextHtml == <<"t", "e", "x", "t", "/", "h", "t", "m", "l">>

\* save_page_snapshot: the directory afterwards and what it returns (the
\* name, or None after an exception it only logs)
SavePageSnapshot(html, dir, clock, disk) ==
    LET file == DataFile(clock, PageSnapshot, html)
    IN  IF disk = "saved" THEN [dir |-> WriteFile(dir, file),
          snap |-> "saved"]
        ELSE IF disk = "write raises"
             THEN [dir |-> WriteFile(dir, [file EXCEPT !.content = <<>>]),
                   snap |-> "None"]
        ELSE [dir |-> dir, snap |-> "None"]

FetchResult(returned, path, exc, dir, log, snapshot) ==
    [returned |-> returned, path |-> path, exc |-> exc, dir |-> dir,
     log |-> log, snap |-> snapshot]
FetchRaise(exc, dir, log, snapshot) ==
    FetchResult(FALSE, DataFile(0, <<>>, <<>>), exc, dir, log, snapshot)
\* what download_url leaves, as the result of the function that called it
OfDownload(d) ==
    IF d.returned THEN FetchResult(TRUE, d.path, "", d.dir, d.log,
          "not tried")
    ELSE FetchRaise(d.last_exc, d.dir, d.log, "not tried")

\* the loop over the candidate links, from link i on
RECURSIVE TryLinks(_, _, _, _)
TryLinks(links, i, disks, st) ==
    IF i > Len(links) THEN {FetchRaise(AllLinksFailed, st.dir, st.log,
          "not tried")}
    ELSE UNION {IF d.returned THEN {OfDownload(d)}
                ELSE TryLinks(links, i + 1, disks, d) :
                  d \in DownloadFrom(links[i], 1, DefaultTries,
                        Web(links[i]), disks,
                                     [st EXCEPT !.last_exc = ""])}

\* fetch_from_page downloading the page itself when it holds no candidate link
FetchFromPageDownloadsPage(url, page, disks, dir, clock) ==
    IF page.raised THEN {FetchRaise(page.exc, dir, <<>>, "not tried")}
    ELSE IF page.status >= 400 THEN {FetchRaise(HTTPError, dir, <<>>,
          "not tried")}
    ELSE IF ~Contains(TextHtml, Lower(page.ct))
         THEN {OfDownload(d) : d \in DownloadUrl(url, DefaultTries, Web(url),
               disks,
                                                 dir, clock)}
    ELSE IF page.links = <<>>
         THEN {OfDownload(d) : d \in DownloadUrl(url, DefaultTries, Web(url),
               disks,
                                                 dir, clock)}
    ELSE TryLinks(page.links, 1, disks, Fresh(dir, clock))

\* fetch_from_page: every way the run can go, given the response to the page
\* request and what the disk can do
FetchFromPage(url, page, disks, dir, clock) ==
    IF page.raised THEN {FetchRaise(page.exc, dir, <<>>, "not tried")}
    ELSE IF page.status >= 400 THEN {FetchRaise(HTTPError, dir, <<>>,
          "not tried")}
    ELSE IF ~Contains(TextHtml, Lower(page.ct))
         THEN {OfDownload(d) : d \in DownloadUrl(url, DefaultTries, Web(url),
               disks,
                                                 dir, clock)}
    ELSE IF page.links = <<>>
         THEN {LET s == SavePageSnapshot(page.content, dir, clock, disk)
               IN  FetchRaise(NoDataLink, s.dir, <<>>,
                     s.snap) : disk \in disks}
    ELSE TryLinks(page.links, 1, disks, Fresh(dir, clock))

\* the lists find_data_links can return: distinct links, in page order
LinkLists ==
    {l \in UNION {[1..n -> {LinkCsv, LinkGet,
          LinkView}] : n \in 0..MaxLinks} :
        \A i, j \in DOMAIN l : i # j => l[i] # l[j]}
HtmlPage(links) ==
    [Response(200, <<"t", "e", "x", "t", "/", "h", "t", "m", "l">>, <<>>,
          PageUrl, <<"<", "h", "t", "m", "l", ">",
          "p">>) EXCEPT !.links = links]
PageOutcomes ==
    {GetRaises(ConnectionError), NotFoundResp,
          CsvResp} \cup {HtmlPage(l) : l \in LinkLists}

NotFetched == FetchRaise("", {}, <<>>, "not tried")
DownloadInput(url, tries) ==
    [phase |-> "input", fn |-> "download_url", url |-> url, tries |-> tries,
     page |-> GetRaises(""), res |-> NotFetched]
PageInput(page) ==
    [phase |-> "input", fn |-> "fetch_from_page", url |-> PageUrl,
          tries |-> DefaultTries,
     page |-> page, res |-> NotFetched]

\* either a call of download_url, or a run of fetch_from_page on an empty
\* output directory
InitFetch ==
    /\ call = NoCall
    /\ df = <<>>
    /\ csvFiles = <<>>
    /\ plotFiles = {}
    /\ mainOut = NoMain
    /\ snap = <<>>
    /\ proj = Idle
    /\ apiResp = Idle
    /\ snapOut = Idle
    /\ rawDir = <<>>
    /\ processed = NotRun
    /\ findCall = Idle
    /\ csvIn = Idle
    /\ db = Idle
    /\ ingested = Idle
    /\ normCall = Idle
    /\ fetch \in {DownloadInput(RootUrl, t) : t \in 0..DefaultTries}
                 \cup {PageInput(p) : p \in PageOutcomes}
    /\ served = Idle

\* download_url(url, out_dir, session, tries)
DownloadUrlCall ==
    /\ fetch.phase = "input"
    /\ fetch.fn = "download_url"
    /\ \E d \in DownloadUrl(fetch.url, fetch.tries, Web(fetch.url),
          DiskOutcomes, {}, 0) :
          fetch' = [fetch EXCEPT !.phase = "done", !.res = OfDownload(d)]
    /\ UNCHANGED <<call, df, csvFiles, plotFiles, mainOut, snap, proj,
          apiResp,
                   snapOut, rawDir, processed, findCall, csvIn, db, ingested,
                   normCall, served>>

\* fetch_from_page(url, out_dir, session)
FetchFromPageRun ==
    /\ fetch.phase = "input"
    /\ fetch.fn = "fetch_from_page"
    /\ \E r \in FetchFromPage(fetch.url, fetch.page, PageDisks, {}, 0) :
          fetch' = [fetch EXCEPT !.phase = "done", !.res = r]
    /\ UNCHANGED <<call, df, csvFiles, plotFiles, mainOut, snap, proj,
          apiResp,
                   snapOut, rawDir, processed, findCall, csvIn, db, ingested,
                   normCall, served>>

NextFetch == DownloadUrlCall \/ FetchFromPageRun

SpecFetch == InitFetch /\ [][NextFetch]_vars

-----------------------------------------------------------------------------
(* backend/serve_forecasts.py *)

ForecastSuffix == <<"_", "f", "o", "r", "e", "c", "a", "s", "t", ".", "c",
      "s", "v">>
AggregateFile == AllStatesAggregateName \o ForecastSuffix
\* str.isalnum, as far as the model's alphabet goes
Alnum == Letters \cup Digits
\* cleaned_filename_for_state
CleanedFilenameForState(state) ==
    IF state = <<>> THEN AggregateFile
    ELSE LET cleaned == KeepOnly(SubChar(Strip(state), {"/", " "}, "_"),
                                 Alnum \cup {"_", "-"})
         IN  IF cleaned = <<>> THEN AggregateFile ELSE cleaned \o ForecastSuffix
\* api_forecast, lines 60-64: the file the request is answered from
RequestedFile(state) ==
    IF state # <<>> /\ Lower(Strip(state)) \in AllStatesLabels THEN AggregateFile
    ELSE CleanedFilenameForState(state)

\* x <= y for floats that are not NaN
FLe(x, y) ==
    IF x.k = "inf" THEN x.n < 0 \/ (y.k = "inf" /\ y.n > 0)
    ELSE IF y.k = "inf" THEN y.n > 0
    ELSE x.n * y.d <= y.n * x.d
RECURSIVE InsertByYear(_, _, _)
InsertByYear(p, s, y) ==
    IF s = <<>> THEN <<p>>
    ELSE IF ~FLe(Head(s)[y].v, p[y].v) THEN <<p>> \o s
    ELSE <<Head(s)>> \o InsertByYear(p, Tail(s), y)
\* df.sort_values("year") on rows without NaN; rows of the same year keep
\* their order
RECURSIVE SortByYear(_, _)
SortByYear(rows, y) ==
    IF rows = <<>> THEN <<>>
    ELSE InsertByYear(rows[Len(rows)], SortByYear(SubSeq(rows, 1,
          Len(rows) - 1), y), y)

ForecastWord == <<"f", "o", "r", "e", "c", "a", "s", "t">>
TypeCol == <<"t", "y", "p", "e">>
Rec(year, value, typ) == [year |-> year, value |-> value, type |-> typ]
ServeError(status, error, state, fname) ==
    [status |-> status, error |-> error, state |-> state, fname |-> fname,
     history |-> <<>>, forecast |-> <<>>]
FileNotFound == "forecast file not found"
FailedToRead == "failed to read forecast file"
MissingColumns == "forecast file missing required columns 'year' and/or 'value'"
NoNumericRows == "forecast file contains no valid numeric rows"

\* str(row.get("type", "")): a missing cell reads "nan"
TypeStr(c) == IF IsNa(c) THEN <<"n", "a", "n">> ELSE StrOfCell(c)
\* the record of a row of the sorted frame, lines 100-113; int() raises on
\* an infinite year and the row is skipped
RowRecs(t, row) ==
    IF ~IsFinite(row[ColIndex(t, YearCol)].v) THEN <<>>
    ELSE <<Rec(Trunc(row[ColIndex(t, YearCol)].v), row[ColIndex(t,
          ValueCol)].v,
               Strip(TypeStr(row[ColIndex(t, TypeCol)])))>>
RECURSIVE Recs(_, _)
Recs(t, rows) == IF rows = <<>> THEN <<>> ELSE RowRecs(t,
      Head(rows)) \o Recs(t, Tail(rows))

\* api_forecast answering with the rows in the order of the file
ApiForecastServeUnsorted(state, dir) ==
    LET fname == RequestedFile(state)
    IN  IF fname \notin DOMAIN dir THEN ServeError(404, FileNotFound, state,
          fname)
        ELSE IF ~dir[fname].readable THEN ServeError(500, FailedToRead,
              state, fname)
        ELSE LET raw == dir[fname].table
                 t0 == [raw EXCEPT !.cols = [i \in DOMAIN raw.cols |->
                                                Lower(Strip(raw.cols[i]))]]
             IN  IF ~HasCol(t0, YearCol) \/ ~HasCol(t0, ValueCol)
                 THEN ServeError(500, MissingColumns, state, fname)
                 ELSE LET t1 == ToNumericCol(ToNumericCol(t0, YearCol),
                       ValueCol)
                          t2 == IF HasCol(t1, TypeCol) THEN t1
                                ELSE SetConst(t1, TypeCol, Txt(<<>>))
                          t3 == DropMissing(t2)
                          recs == Recs(t3, t3.rows)
                      IN  IF t3.rows = <<>>
                          THEN ServeError(500, NoNumericRows, state, fname)
                          ELSE [status |-> 200, error |-> "", state |-> state,
                                fname |-> fname,
                                history |-> SelectSeq(recs, LAMBDA r :
                                               Lower(r.type) # ForecastWord),
                                forecast |-> SelectSeq(recs, LAMBDA r :
                                               Lower(r.type) = ForecastWord)]

\* api_forecast: GET /api/forecast?state=... on the forecast directory dir
ApiForecastServe(state, dir) ==
    LET fname == RequestedFile(state)
    IN  IF fname \notin DOMAIN dir THEN ServeError(404, FileNotFound, state,
          fname)
        ELSE IF ~dir[fname].readable THEN ServeError(500, FailedToRead,
              state, fname)
        ELSE LET raw == dir[fname].table
                 t0 == [raw EXCEPT !.cols = [i \in DOMAIN raw.cols |->
                                                Lower(Strip(raw.cols[i]))]]
             IN  IF ~HasCol(t0, YearCol) \/ ~HasCol(t0, ValueCol)
                 THEN ServeError(500, MissingColumns, state, fname)
                 ELSE LET t1 == ToNumericCol(ToNumericCol(t0, YearCol),
                       ValueCol)
                          t2 == IF HasCol(t1, TypeCol) THEN t1
                                ELSE SetConst(t1, TypeCol, Txt(<<>>))
                          t3 == DropMissing(t2)
                          sorted == SortByYear(t3.rows, ColIndex(t3, YearCol))
                          recs == Recs(t3, sorted)
                      IN  IF t3.rows = <<>>
                          THEN ServeError(500, NoNumericRows, state, fname)
                          ELSE [status |-> 200, error |-> "", state |-> state,
                                fname |-> fname,
                                history |-> SelectSeq(recs, LAMBDA r :
                                               Lower(r.type) # ForecastWord),
                                forecast |-> SelectSeq(recs, LAMBDA r :
                                               Lower(r.type) = ForecastWord)]

HistoryWord == <<"h", "i", "s", "t", "o", "r", "y">>
\* result_df.to_csv(fname_csv, index=False) of predict.forecast_state, as
\* pd.read_csv reads it back: the columns year, value, type
ForecastCsv(rows) ==
    File(Table(<<YearCol, ValueCol, TypeCol>>,
               [i \in DOMAIN rows |->
                   <<Num(R(rows[i].year)), Num(rows[i].value),
                     Txt(IF rows[i].type = "forecast" THEN ForecastWord
                         ELSE HistoryWord)>>]))
\* the forecast directory after predict.forecast_state has written the
\* forecast of a label
ForecastWritten(dir, state_label, aggregate, rows) ==
    ((CsvName(state_label,
          aggregate) \o ForecastSuffix) :> ForecastCsv(rows)) @@ dir

\* the labels a forecast is written and requested for
ServeLabels ==
    {<<>>, Goa, <<" ", "G", "o", "a", " ">>, <<"G", "o", "a", " ", "(", "N",
          ")">>, <<"J", " ", "&", " ", "K">>, <<"A", "-", "B">>, <<"A", "/",
          "B">>, <<"a", "l", "l", " ", "s", "t", "a", "t", "e", "s">>,
     AllStatesAggregateLabel}
\* the series and the forecast the model lets predict write
SampleForecastRows ==
    CsvRows(<<Pt(2001, R(1)), Pt(2002, R(4))>>, <<Pt(2003, R(7))>>)

ServeYearCells == {Num(R(2001)), Num(Fin(4003, 2)), Num(PosInf), Missing,
      Txt(<<"x">>)}
ServeValueCells == {Num(R(1)), Num(PosInf), Missing, Txt(<<"x">>)}
ServeTypeCells ==
    {Txt(HistoryWord), Txt(ForecastWord), Txt(<<"F", "o", "r", "e", "c", "a",
          "s", "t">>), Txt(<<" ", "f", "o", "r", "e", "c", "a", "s", "t",
          " ">>), Missing}
ServePlainRow == <<Num(R(2002)), Num(R(4)), Txt(HistoryWord)>>
ServeHeaders ==
    {<<YearCol, ValueCol, TypeCol>>, <<<<"Y", "e", "a", "r">>, <<" ", "V",
          "a", "l", "u", "e">>, <<"T", "Y", "P", "E">>>>}
\* forecast files with the three columns: at most MaxRows rows, one of them
\* free and the others unremarkable
ServeTables ==
    {Table(h, [i \in 1..n |-> IF i = pos THEN v ELSE ServePlainRow]) :
        h \in {<<YearCol, ValueCol, TypeCol>>}, n \in 1..MaxRows,
              pos \in 1..MaxRows,
        v \in ServeYearCells \X ServeValueCells \X ServeTypeCells}
    \cup {Table(h, <<ServePlainRow, <<Num(R(2001)), Num(R(1)),
          Txt(ForecastWord)>>>>) :
            h \in ServeHeaders}
    \cup {Table(<<YearCol, ValueCol>>, <<<<Num(R(2002)), Num(R(4))>>>>),
          Table(<<YearCol, TypeCol>>, <<<<Num(R(2002)), Txt(HistoryWord)>>>>),
          Table(<<YearCol, ValueCol, TypeCol>>, <<>>)}
ServeFiles == {Unreadable} \cup {File(t) : t \in ServeTables}
NoForecasts == <<>>
\* forecast directories: empty, or one file under the name of Goa
ForecastDirs ==
    {NoForecasts} \cup {(RequestedFile(Goa) :> f) : f \in ServeFiles}

NotServed == ServeError(0, "", <<>>, <<>>)
ServeInput(dir, state, aggregate) ==
    [phase |-> "input", dir |-> dir, state |-> state, aggregate |-> aggregate,
     wrote |-> FALSE, resp |-> NotServed]

\* a forecast directory and the label predict is run and the server is asked
\* for
InitServe ==
    /\ call = NoCall
    /\ df = <<>>
    /\ csvFiles = <<>>
    /\ plotFiles = {}
    /\ mainOut = NoMain
    /\ snap = <<>>
    /\ proj = Idle
    /\ apiResp = Idle
    /\ snapOut = Idle
    /\ rawDir = <<>>
    /\ processed = NotRun
    /\ findCall = Idle
    /\ csvIn = Idle
    /\ db = Idle
    /\ ingested = Idle
    /\ normCall = Idle
    /\ fetch = Idle
    /\ served \in {ServeInput(d, Goa, FALSE) : d \in ForecastDirs}
                  \cup {ServeInput(NoForecasts, s,
                        FALSE) : s \in ServeLabels \ {<<>>}}
                  \cup {ServeInput(NoForecasts, AllStatesAggregateLabel,
                        TRUE)}

\* python src/predict.py --state ... (or --aggregate): forecast_state writes
\* the forecast of the label
ForecastStateWrites ==
    /\ served.phase = "input"
    /\ ~served.wrote
    /\ served' = [served EXCEPT !.wrote = TRUE,
                                !.dir = ForecastWritten(served.dir,
                                      served.state,
                                                        served.aggregate,
                                                        SampleForecastRows)]
    /\ UNCHANGED <<call, df, csvFiles, plotFiles, mainOut, snap, proj,
          apiResp,
                   snapOut, rawDir, processed, findCall, csvIn, db, ingested,
                   normCall, fetch>>

\* GET /api/forecast?state=<label>
ApiForecastServed ==
    /\ served.phase = "input"
    /\ \E r \in {ApiForecastServe(served.state, served.dir)} :
          served' = [served EXCEPT !.phase = "done", !.resp = r]
    /\ UNCHANGED <<call, df, csvFiles, plotFiles, mainOut, snap, proj,
          apiResp,
                   snapOut, rawDir, processed, findCall, csvIn, db, ingested,
                   normCall, fetch>>

NextServe == ForecastStateWrites \/ ApiForecastServed

SpecServe == InitServe /\ [][NextServe]_vars

-----------------------------------------------------------------------------
(* Claims about model.choose_forecast, checked under SpecSelector *)

Returned == call.phase = "returned"
NonMissing == Len(DropNa(call.series))
YearsOf(fc) == [i \in 1..Len(fc) |-> fc[i].year]

\* C2: the linear fallback runs if and only if the statistical attempt
\* raised; the method is 'arima(1,1,1)' exactly when the fit succeeded and
\* 'linear_trend' exactly when the fallback ran and returned; the only error
\* that reaches the caller is the fallback's own.
C2_FallbackIffStatisticalRaised ==
    Returned =>
        LET arimaOk == ForecastArima(call.series, call.periods, call.fit).ok
            r == call.res
        IN  /\ r.status \in {"ok", "error"}
            /\ r.fallbackRan <=> ~arimaOk
            /\ r.status = "ok" =>
                  /\ r.method \in {"arima(1,1,1)", "linear_trend"}
                  /\ r.method = "arima(1,1,1)" <=> arimaOk
                  /\ r.method = "linear_trend" <=> r.fallbackRan
            /\ r.status = "error" =>
                  /\ r.fallbackRan
                  /\ r.err = ForecastTrendLr(call.series, call.periods).err
                  /\ r.err \notin {ArimaTooFew, ArimaFitError}

\* the fit of a series with enough observations raised, and the caller got
\* the linear trend
C2_Witness ==
    /\ Returned
    /\ NonMissing >= 3
    /\ call.fit.raise
    /\ call.res.status = "ok"
    /\ call.res.method = "linear_trend"

\* C4: with exactly 2 non-missing points choose_forecast returns
\* 'linear_trend' whatever the statistical library would do; with 3 or more
\* both 'arima(1,1,1)' and 'linear_trend' are possible outcomes.
C4_TwoPointsLinearThreePlusBoth ==
    LET outcomes == {ChooseForecast(call.series, call.periods, f).method :
                        f \in Fits(call.periods)}
    IN  /\ (call.phase = "input" /\ NonMissing = 2) => outcomes = {"linear_trend"}
        /\ (call.phase = "input" /\ NonMissing >= 3) =>
              outcomes = {"arima(1,1,1)", "linear_trend"}
        /\ (Returned /\ NonMissing = 2) =>
              call.res.status = "ok" /\ call.res.method = "linear_trend"
        /\ (Returned /\ call.res.method = "arima(1,1,1)") => NonMissing >= 3

\* a series of three points, one of them missing, came back as linear trend
\* although the library would have fitted
C4_Witness ==
    /\ Returned
    /\ Len(call.series) = 3
    /\ NonMissing = 2
    /\ ~call.fit.raise
    /\ call.res.method = "linear_trend"

\* C5: both paths label the forecast points last_observed_year + i,
\* i = 1..periods, last_observed_year being the largest year of the input
\* series; the forecast years do not depend on the path.
C5_SameFutureYears ==
    LET idx == {call.series[i].year : i \in 1..Len(call.series)}
        last == CHOOSE y \in idx : \A z \in idx : z <= y
        expected == [i \in 1..call.periods |-> last + i]
    IN  /\ (Returned /\ call.res.status = "ok") => YearsOf(call.res.fc) = expected
        /\ call.phase = "input" =>
              \A f \in Fits(call.periods) :
                  LET a == ForecastArima(call.series, call.periods, f)
                      l == ForecastTrendLr(call.series, call.periods)
                  IN  /\ a.ok => YearsOf(a.fc) = expected
                      /\ l.ok => YearsOf(l.fc) = expected

\* the fallback forecast a series whose last year has no value
C5_Witness ==
    /\ Returned
    /\ call.res.method = "linear_trend"
    /\ Len(call.series) = 3
    /\ IsNaN(SortIndex(call.series)[3].value)
    /\ call.res.fc[1].year = MaxYear(call.series) + 1

-----------------------------------------------------------------------------
(* Claims about predict.forecast_state and predict.main, under SpecPredict *)

MainDone == mainOut.phase = "done"
Wrote == MainDone /\ mainOut.results = 1
Projection == csvFiles[mainOut.name]

\* the written projection is the series forecast_state built, labelled
\* history, then `periods` points labelled forecast
HistoryThenForecast ==
    LET s == mainOut.series
        h == Len(s)
        rows == Projection
    IN  /\ mainOut.name \in DOMAIN csvFiles
        /\ Len(rows) = h + mainOut.args.periods
        /\ \A i \in 1..h : rows[i] = Row(s[i].year, s[i].value, "history")
        /\ \A i \in (h + 1)..Len(rows) : rows[i].type = "forecast"

\* C1 as stated: whenever forecast_state writes a projection, it is the
\* history then `periods` forecast points, and the years of the whole
\* sequence are consecutive.
C1_Original_NoGapsAnywhere ==
    Wrote =>
        /\ HistoryThenForecast
        /\ \A i \in 1..(Len(Projection) - 1) :
              Projection[i + 1].year = Projection[i].year + 1

\* C1, amended: whenever forecast_state writes a projection, it is the
\* history then `periods` forecast points, the years are strictly
\* increasing, and the forecast years are consecutive from the year after
\* the last history year; the history keeps the gaps of the input.
C1_HistoryThenConsecutiveForecast ==
    Wrote =>
        LET h == Len(mainOut.series) IN
        /\ HistoryThenForecast
        /\ \A i \in 1..(Len(Projection) - 1) :
              Projection[i].year < Projection[i + 1].year
        /\ \A i \in h..(Len(Projection) - 1) :
              Projection[i + 1].year = Projection[i].year + 1

\* a projection was written for a history with a missing year
C1_Witness ==
    /\ Wrote
    /\ LET s == mainOut.series IN
          /\ Len(s) >= 2
          /\ \E i \in 1..(Len(s) - 1) : s[i + 1].year > s[i].year + 1
          /\ Len(Projection) = Len(s) + MaxPeriods

\* C3: on a series with fewer than 2 non-missing observations
\* choose_forecast fails with the fallback's error; forecast_state then
\* writes neither CSV nor plot, and main logs the error instead of letting
\* it escape.
C3_TooFewPointsFailsCleanly ==
    (MainDone /\ mainOut.chose /\ Len(DropNa(mainOut.series)) < 2) =>
        LET r == ChooseForecast(mainOut.series, mainOut.args.periods, mainOut.fit)
        IN  /\ r.status = "error"
            /\ r.err = LrTooFew
            /\ mainOut.logged = LrTooFew
            /\ mainOut.uncaught = ""
            /\ mainOut.results = 0
            /\ DOMAIN csvFiles = {}
            /\ plotFiles = {}

\* main asked for a state with a single observation
C3_Witness ==
    /\ MainDone
    /\ mainOut.chose
    /\ Len(mainOut.series) = 1
    /\ ~mainOut.args.aggregate
    /\ mainOut.logged = LrTooFew
    /\ mainOut.exit = 4

-----------------------------------------------------------------------------
(* Claims about the scenario projector, checked under SpecScenario *)

Projected == proj.phase = "done"
ApiAnswered == apiResp.phase = "done"
SnapshotRan == snapOut.phase = "done"

\* the offsets 0, 1, ..., n
Offsets(n) == [i \in 1..(n + 1) |-> i - 1]
ValuesOf(series) == [i \in 1..Len(series) |-> series[i][2]]
RowsOf(state) == SelectSeq(snapOut.res.rows, LAMBDA r : r.state = state)

\* both projector functions returned n + 1 points, offsets 0..n, the base first
ProjShape(n) ==
    /\ proj.built.ok
    /\ proj.built.years = Offsets(n)
    /\ Len(proj.built.hist) = n + 1
    /\ proj.built.hist[1] = proj.value
    /\ [i \in 1..Len(proj.single) |-> proj.single[i][1]] = Offsets(n)
    /\ proj.single[1][2] = proj.value

\* the response holds one history point, the base, and n forecast points
ApiShape(n) ==
    /\ Len(apiResp.res.history) + Len(apiResp.res.forecast) = n + 1
    /\ apiResp.res.history = <<Pt(BaseYear, apiResp.res.base)>>
    /\ YearsOf(apiResp.res.forecast) = [i \in 1..n |-> BaseYear + i]

\* every state with a finite cell has n + 1 rows: its base as the only
\* history row, then n forecast rows
RunShape(n) ==
    \A i \in 1..Len(snap) :
        IsFinite(snap[i].cell) =>
            LET rs == RowsOf(Strip(snap[i].state))
            IN  /\ Len(rs) = n + 1
                /\ YearsOf(rs) = [j \in 1..(n + 1) |-> BaseYear + j - 1]
                /\ rs[1].value = snap[i].cell
                /\ \A j \in 1..Len(rs) :
                      rs[j].type = IF j = 1 THEN "history" ELSE "forecast"

ScenarioShape(steps(_)) ==
    /\ Projected /\ IsFinite(proj.value) => ProjShape(steps(proj.params.periods))
    /\ ApiAnswered /\ apiResp.res.status = 200 /\ IsFinite(apiResp.res.base)
          => ApiShape(steps(apiResp.params.periods))
    /\ SnapshotRan /\ snapOut.res.exit = ""
          => RunShape(steps(snapOut.params.periods))

\* C6 as stated: for a valid base value and any periods the projector
\* returns exactly periods + 1 points with offsets 0..periods.
C6_Original_AnyPeriods == ScenarioShape(LAMBDA n : n)

\* C6: for a finite base value and every periods >= 0 the projector returns
\* exactly periods + 1 points with offsets 0, 1, ..., periods in order, the
\* point at offset 0 being the base value and the only history point and the
\* following `periods` points the forecast; for a negative periods it returns
\* the history point alone.
C6_PeriodsPlusOnePoints == ScenarioShape(LAMBDA n : IF n < 0 THEN 0 ELSE n)

C6_Witness ==
    /\ ApiAnswered
    /\ apiResp.params.periods = 2
    /\ apiResp.res.status = 200
    /\ Len(apiResp.res.history) = 1
    /\ Len(apiResp.res.forecast) = 2

\* each value after the first is the step of the mode applied to the one before
Recurrence(vals, base, p) ==
    /\ Len(vals) >= 1
    /\ vals[1] = base
    /\ \A i \in 1..p.periods :
          /\ i + 1 <= Len(vals)
          /\ vals[i + 1] = IF p.mode = "compound"
                           THEN FMul(vals[i], FAdd(R(1), p.rate))
                           ELSE FAdd(vals[i], p.delta)

\* C7: the projector's values start at the base value and follow
\* v[i] = v[i-1] * (1 + rate) in compound mode and v[i] = v[i-1] + delta in
\* linear mode; base 50, 2 periods, linear, delta 5 gives [50, 55, 60] and
\* base 100, 3 periods, compound, rate -0.01 gives [100, 99, 98.01, 97.0299].
C7_ValuesFollowRecurrence ==
    Projected /\ proj.params.mode \in {"compound", "linear"} =>
        /\ proj.built.ok => Recurrence(proj.built.hist, proj.value, proj.params)
        /\ proj.single # <<>> =>
              Recurrence(ValuesOf(proj.single), proj.value, proj.params)
        /\ proj.value = R(50) /\ proj.params = LinearExample =>
              /\ proj.built.hist = <<R(50), R(55), R(60)>>
              /\ ValuesOf(proj.single) = <<R(50), R(55), R(60)>>
        /\ proj.value = R(100) /\ proj.params = CompoundExample =>
              /\ proj.built.hist =
                    <<R(100), R(99), Fin(9801, 100), Fin(970299, 10000)>>
              /\ ValuesOf(proj.single) =
                    <<R(100), R(99), Fin(9801, 100), Fin(970299, 10000)>>

C7_Witness ==
    /\ Projected
    /\ proj.value = R(100)
    /\ proj.params = CompoundExample
    /\ Len(proj.single) = 4
    /\ proj.single[4] = <<3, Fin(970299, 10000)>>

\* C8 as stated: a base value that is None, NaN or infinite makes the
\* projector fail and leaves the entity without projection points; a finite
\* base value never fails.
C8_Original_InvalidBaseValueFails ==
    /\ Projected =>
          IF IsFinite(proj.value)
          THEN proj.built.ok /\ proj.single # <<>>
          ELSE ~proj.built.ok /\ proj.built.hist = <<>> /\ proj.single = <<>>
    /\ ApiAnswered /\ apiResp.res.status # 404 =>
          IF IsFinite(apiResp.res.base)
          THEN apiResp.res.status = 200
          ELSE /\ apiResp.res.status = 400
               /\ apiResp.res.history = <<>>
               /\ apiResp.res.forecast = <<>>
    /\ SnapshotRan =>
          \A i \in 1..Len(snap) :
              IsNumber(snap[i].cell) /\ ~IsFinite(snap[i].cell)
                  => RowsOf(Strip(snap[i].state)) = <<>>

-----------------------------------------------------------------------------
(* Claims about process_data.process_all, checked under SpecProcess *)

ProcessDone == processed.phase = "done"
Written == processed.csv.rows
YearOf(row) == row[2]
ValueOf(row) == row[3]

\* C9: every record process_all writes has a year and a value that are not
\* missing: both are numbers and neither is NaN.
C9_NoMissingYearOrValue ==
    ProcessDone =>
        \A i \in DOMAIN Written :
            /\ YearOf(Written[i]).t = "num" /\ ~IsNaN(YearOf(Written[i]).v)
            /\ ValueOf(Written[i]).t = "num" /\ ~IsNaN(ValueOf(Written[i]).v)

\* a file with a row lacking its value next to a complete row: one record is
\* written
C9_Witness ==
    /\ ProcessDone
    /\ Len(rawDir) = 1
    /\ rawDir[1].table.cols = LabelsOf(LongLayout)
    /\ Len(rawDir[1].table.rows) = 2
    /\ \E r \in DOMAIN rawDir[1].table.rows : IsNa(rawDir[1].table.rows[r][3])
    /\ processed.wrote
    /\ Len(Written) = 1

\* C10 as stated: every written record has a 4-digit integer year
\* (1000..9999) and a finite value.
C10_Original_FourDigitYearFiniteValue ==
    ProcessDone =>
        \A i \in DOMAIN Written :
            /\ IsFinite(YearOf(Written[i]).v)
            /\ YearOf(Written[i]).v.d = 1
            /\ YearOf(Written[i]).v.n \in 1000..9999
            /\ IsFinite(ValueOf(Written[i]).v)

\* the files process_all read a table with rows from
TableFiles == {i \in DOMAIN rawDir : rawDir[i].readable /\ rawDir[i].table.rows # <<>>}
FourDigits(c) == Len(c) = 4 /\ IsDigits(c)
\* one identifier column followed by columns labelled with a year
IsWideTable(t) ==
    /\ Len(t.cols) >= 2
    /\ ~FourDigits(t.cols[1])
    /\ \A j \in 2..Len(t.cols) : FourDigits(t.cols[j])
\* the record of row r and year column j
WideRecord(t, r, j) == <<t.rows[r][1], Num(R(DigitsToInt(t.cols[j]))), t.rows[r][j]>>
WidePairs(t) == (DOMAIN t.rows) \X (2..Len(t.cols))

\* C11: a wide table with one identifier column and k year columns gives
\* exactly k candidate records per row, one per (row, year column) pair, with
\* the row's identifier as entity, the cell as value and the column's integer
\* year as year.
C11_OneRecordPerRowAndYearColumn ==
    ProcessDone =>
        \A i \in TableFiles :
            IsWideTable(rawDir[i].table) =>
                LET t == rawDir[i].table
                    l == processed.long[i]
                IN  /\ l.called /\ l.ok
                    /\ l.t.cols = LongCols
                    /\ Len(l.t.rows) = (Len(t.cols) - 1) * Len(t.rows)
                    /\ \A q \in WidePairs(t) :
                          Cardinality({x \in DOMAIN l.t.rows :
                                          l.t.rows[x] = WideRecord(t, q[1], q[2])})
                          = Cardinality({q2 \in WidePairs(t) :
                                          WideRecord(t, q2[1], q2[2])
                                          = WideRecord(t, q[1], q[2])})

C11_Witness ==
    /\ ProcessDone
    /\ Len(rawDir) = 1
    /\ 1 \in TableFiles
    /\ rawDir[1].table.cols = LabelsOf(WideLayout)
    /\ Len(rawDir[1].table.rows) = 2
    /\ Len(processed.long[1].t.rows) = 4

\* a label of one of the forms YYYY, YYYY-YY, YYYY/YY
IsYearToken(c) ==
    \/ FourDigits(c)
    \/ /\ Len(c) = 7
       /\ IsDigits(SubSeq(c, 1, 4))
       /\ c[5] \in {"-", "/"}
       /\ IsDigits(SubSeq(c, 6, 7))
\* one identifier column followed by columns labelled with year tokens
IsTokenTable(t) ==
    /\ Len(t.cols) >= 2
    /\ ~IsYearToken(t.cols[1])
    /\ \A j \in 2..Len(t.cols) : IsYearToken(t.cols[j])

\* C12 as stated: a wide table whose year columns are labelled YYYY, YYYY-YY
\* or YYYY/YY is reshaped through the wide path: every such column yields
\* records whose year is the first four digits of its label, every other
\* column is an identifier column.
C12_Original_EveryYearTokenIsAYearColumn ==
    ProcessDone =>
        \A i \in TableFiles :
            IsTokenTable(rawDir[i].table) =>
                LET t == rawDir[i].table
                    l == processed.long[i]
                IN  /\ l.called /\ l.ok
                    /\ l.t.cols = LongCols
                    /\ Len(l.t.rows) = (Len(t.cols) - 1) * Len(t.rows)
                    /\ \A j \in 2..Len(t.cols) : \A r \in DOMAIN t.rows :
                          \E x \in DOMAIN l.t.rows :
                              l.t.rows[x] =
                                  <<t.rows[r][1],
                                    Num(R(DigitsToInt(SubSeq(t.cols[j], 1, 4)))),
                                    t.rows[r][j]>>

\* the string two labels share when they differ only in letter case and in
\* leading, trailing or repeated whitespace
Fold(s) == Lower(SubRuns(Strip(s), Spaces, " "))
\* the files whose records were written
ProcessedFiles == {i \in DOMAIN processed.files : processed.files[i] = "processed"}
\* the candidate records of file i that have a year and a value
KeptRecords(i) ==
    LET l == processed.long[i].t
    IN  {x \in DOMAIN l.rows :
            /\ ~IsNa(ToNumericCell(l.rows[x][ColIndex(l, YearCol)]))
            /\ ~IsNa(ToNumericCell(l.rows[x][ColIndex(l, ValueCol)]))}
KeptPairs == UNION {{<<i, x>> : x \in KeptRecords(i)} : i \in ProcessedFiles}
LabelOf(q) == processed.long[q[1]].t.rows[q[2]][ColIndex(processed.long[q[1]].t, StateCol)]
NumberOf(q, col) ==
    ToNumericCell(processed.long[q[1]].t.rows[q[2]][ColIndex(processed.long[q[1]].t, col)]).v
\* the sum of the values in a set of candidate records
RECURSIVE SumOver(_)
SumOver(Q) ==
    IF Q = {} THEN R(0)
    ELSE LET q == CHOOSE x \in Q : TRUE IN FAdd(NumberOf(q, ValueCol), SumOver(Q \ {q}))

-----------------------------------------------------------------------------
(* Claims about ingest_csv, checked under SpecIngest *)

FindReturned == findCall.phase = "returned"
IngestDone == ingested.phase = "done"
ReadCsv == IngestDone /\ csvIn.input.isfile
\* the two tests find_column applies to a column
InLower(patt, c) == Contains(Lower(patt), Lower(c))
Searched(patt, c) == RegexCompiles(patt) /\ RegexSearch(patt, c)
MatchesPattern(patt, c) == InLower(patt, c) \/ Searched(patt, c)
\* the patterns of a list that match a column, by their place in the list
MatchingPatterns(columns, patterns) ==
    {p \in DOMAIN patterns : \E i \in DOMAIN columns : MatchesPattern(patterns[p], columns[i])}
Earliest(S) == CHOOSE p \in S : \A q \in S : p <= q
\* the leftmost column of those passing a test
Leftmost(columns, test(_)) ==
    columns[Earliest({i \in DOMAIN columns : test(columns[i])})]
\* the entity column is taken from a pattern whenever a pattern matches a
\* column, and is the first non-numeric column otherwise
EntityByPatternFirst ==
    ReadCsv =>
        LET t == csvIn.input.table
        IN  IF MatchingPatterns(t.cols, StatePatterns) # {}
            THEN /\ ingested.roles.state.found
                 /\ \E p \in DOMAIN StatePatterns :
                       MatchesPattern(StatePatterns[p], ingested.roles.state.col)
            ELSE \A i \in DOMAIN t.cols :
                    (~IsNumericColumn(t, i) /\ \A j \in 1..(i - 1) : IsNumericColumn(t, j))
                        => ingested.roles.state = Found(t.cols[i])

RoleNames == {"state", "availability", "extraction", "stage"}
RoleColumn(role) ==
    IF role = "state" THEN ingested.roles.state
    ELSE IF role = "availability" THEN ingested.roles.availability
    ELSE IF role = "extraction" THEN ingested.roles.extraction
    ELSE ingested.roles.stage

\* C15 as stated: within one table no column is bound to two roles: the
\* columns chosen for the different roles are pairwise distinct.
C15_Original_RolesPairwiseDistinct ==
    ReadCsv =>
        \A r1, r2 \in RoleNames :
            (r1 # r2 /\ RoleColumn(r1).found /\ RoleColumn(r2).found)
                => RoleColumn(r1).col # RoleColumn(r2).col

\* no label of the table resembles an entity column and no column holds text
NoEntityColumn(t) ==
    /\ \A i \in DOMAIN t.cols : ~StateLike(t.cols[i])
    /\ \A i \in DOMAIN t.cols : \A r \in DOMAIN t.rows : t.rows[r][i].t = "num"

\* C16 as stated: a table in which no entity column can be identified (no
\* label matches and no column is non-numeric) is rejected and contributes no
\* record to the written table.
C16_Original_NoEntityColumnRejected ==
    ProcessDone =>
        \A i \in TableFiles :
            NoEntityColumn(rawDir[i].table) =>
                /\ processed.files[i] # "processed"
                /\ \A w \in DOMAIN Written : Written[w][4] # Num(R(i))

\* the written records of file i, in the order they were written
WrittenOf(i) == SelectSeq(Written, LAMBDA w : w[4] = Num(R(i)))
\* what process_all gives for file i when it is the only file
Alone(i) == ProcessAll(<<rawDir[i]>>)
Usable(i) == processed.files[i] = "processed"

\* C17: a file that is unreadable or empty, that cannot be reshaped, that has
\* no year column or no numeric column, or whose rows are all invalid,
\* contributes no record; every other file is processed as if it were the only
\* one, and all its valid records are written; the run fails only when no file
\* yields a record.
C17_FailuresStayInTheirFile ==
    ProcessDone /\ rawDir # <<>> =>
        /\ DOMAIN processed.files = DOMAIN rawDir
        /\ \A i \in DOMAIN rawDir : \E alone \in {Alone(i)} :
              /\ alone.files = <<processed.files[i]>>
              /\ IF Usable(i)
                 THEN [k \in DOMAIN WrittenOf(i) |-> SubSeq(WrittenOf(i)[k], 1, 3)]
                        = [k \in DOMAIN alone.csv.rows |-> SubSeq(alone.csv.rows[k], 1, 3)]
                 ELSE WrittenOf(i) = <<>>
        /\ Len(Written) = Cardinality(KeptPairs)
        /\ (processed.error # "") = (\A i \in DOMAIN rawDir : ~Usable(i))
        /\ processed.wrote = (\E i \in DOMAIN rawDir : Usable(i))

\* the first file cannot be used, the second one is processed and written
C17_Witness ==
    /\ ProcessDone
    /\ Len(rawDir) = 2
    /\ processed.files[1] \in {"failed", "no year column", "no numeric column", "no valid rows"}
    /\ processed.files[2] = "processed"
    /\ processed.error = ""
    /\ WrittenOf(1) = <<>>
    /\ WrittenOf(2) # <<>>

\* C18 as stated: after a run of the ingestion, whether it succeeds or fails,
\* the states table is either what it was before the run or the complete
\* record set of this run, and after a successful run it is the latter.
C18_Original_OldOrCompleteTable ==
    ReadCsv =>
        \E b \in {BuildNormalized(csvIn.input.table)} :
            /\ db.states = ingested.before.states \/ (b.ok /\ db.states = Stored(b.norm))
            /\ ingested.exit = 0 => b.ok /\ db.states = Stored(b.norm)

-----------------------------------------------------------------------------
(* Claims about predict.prepare_series, checked under SpecPredict *)

\* the rows of the cleaned table the request of the run is about: all of them
\* for the aggregate, else those of the state named exactly, else those of the
\* first state of the table whose name contains the requested one
RequestedRows ==
    LET key == Lower(Strip(mainOut.args.state))
        low(i) == Lower(Strip(df[i].state))
        exact == {i \in DOMAIN df : low(i) = key}
        containing == {i \in DOMAIN df : Contains(key, low(i))}
    IN  IF mainOut.args.aggregate THEN DOMAIN df
        ELSE IF mainOut.args.state = <<>> THEN {}
        ELSE IF IsAllStatesLabel(mainOut.args.state) THEN DOMAIN df
        ELSE IF exact # {} THEN exact
        ELSE IF containing = {} THEN {}
        ELSE {i \in DOMAIN df : low(i) = low(Earliest(containing))}
PrepareSeriesErrors ==
    {"No data available to aggregate across states.",
     "No state provided and aggregate not requested.",
     "No data found for state", "No numeric values found for state"}

\* C19: the series prepare_series returns, for a state or for the aggregate,
\* has at least one point and strictly increasing years, one point per year
\* of the requested rows; when the request has no row, prepare_series raises
\* and no series is returned.
C19_SeriesNonEmptyYearsIncreasing ==
    MainDone =>
        IF RequestedRows = {}
        THEN /\ mainOut.series = <<>>
             /\ ~mainOut.chose
             /\ mainOut.logged \in PrepareSeriesErrors
        ELSE /\ mainOut.chose
             /\ Len(mainOut.series) >= 1
             /\ \A k \in 1..(Len(mainOut.series) - 1) :
                   mainOut.series[k].year < mainOut.series[k + 1].year
             /\ {mainOut.series[k].year : k \in DOMAIN mainOut.series}
                   = {df[i].year : i \in RequestedRows}

\* a state with two rows of the same year and one of another year: two points
C19_Witness ==
    /\ MainDone
    /\ ~mainOut.args.aggregate
    /\ Len(df) = 3
    /\ RequestedRows = {1, 2, 3}
    /\ df[1].year = df[2].year
    /\ Len(mainOut.series) = 2

-----------------------------------------------------------------------------
(* Claims about the entity of the written records, under SpecProcess *)

\* C20 as stated: every record process_all writes has an entity that is not
\* empty after trimming, whatever the cell of the entity column was.
C20_Original_EntityNeverEmpty ==
    ProcessDone =>
        \A w \in DOMAIN Written :
            /\ Written[w][1].t = "text"
            /\ Strip(Written[w][1].s) # <<>>


-----------------------------------------------------------------------------
(* Claims about try_make_long called twice, checked under SpecNormalize *)

NormalizedOnce == normCall.phase \in {"once", "twice"}
NormalizedTwice == normCall.phase = "twice"

-----------------------------------------------------------------------------
(* Claims about fetch_opencity.py, checked under SpecFetch *)

FetchDone == fetch.phase = "done"
\* the output directory as pass i of a download found it
DirBefore(i) == IF i = 1 THEN {} ELSE fetch.res.log[i - 1].dir
\* a response that is an HTML page, by the test fetch_from_page applies to
\* the page it fetches
IsHtmlPage(resp) ==
    ~resp.raised /\ resp.status < 400 /\ Contains(TextHtml, Lower(resp.ct))

\* C22: a download attempt whose response is an HTML page saves nothing and
\* counts as failed, and the run goes on after it (to the next attempt or
\* the next candidate) or ends in an error
C22_Original_HtmlNeverSaved ==
    FetchDone =>
        \A i \in DOMAIN fetch.res.log :
            IsHtmlPage(fetch.res.log[i].got) =>
                /\ ~fetch.res.log[i].saved
                /\ fetch.res.log[i].dir = DirBefore(i)
                /\ i < Len(fetch.res.log) \/ ~fetch.res.returned

NoLinkOnHtmlPage ==
    /\ FetchDone
    /\ fetch.fn = "fetch_from_page"
    /\ IsHtmlPage(fetch.page)
    /\ fetch.page.links = <<>>

\* C23 as stated: when the fetched page is HTML and holds no candidate link, a
\* snapshot of the page is saved, the fetch fails with an error, no data file
\* is saved and no download is attempted
C23_Original_SnapshotSavedThenError ==
    NoLinkOnHtmlPage =>
        /\ fetch.res.dir = {DataFile(0, PageSnapshot, fetch.page.content)}
        /\ ~fetch.res.returned
        /\ fetch.res.exc = NoDataLink
        /\ fetch.res.log = <<>>

\* C23, amended: when the fetched page is HTML and holds no candidate link,
\* saving a snapshot of the page is tried (a failure to write it is only
\* logged), the fetch then fails with the no-link error, no download is
\* attempted and no file but the snapshot is written
C23_SnapshotTriedThenError ==
    NoLinkOnHtmlPage =>
        /\ ~fetch.res.returned
        /\ fetch.res.exc = NoDataLink
        /\ fetch.res.log = <<>>
        /\ \A f \in fetch.res.dir : f.ts = 0 /\ f.fn = PageSnapshot
        /\ fetch.res.snap \in {"saved", "None"}
        /\ fetch.res.snap = "saved"
              <=> fetch.res.dir = {DataFile(0, PageSnapshot, fetch.page.content)}

\* an HTML page without a link was fetched and its snapshot saved
C23_Witness_SnapshotSaved ==
    /\ NoLinkOnHtmlPage
    /\ fetch.res.snap = "saved"
    /\ fetch.res.exc = NoDataLink

\* C29 as stated: download_url makes at most `tries` attempts, returns the
\* saved path at the first successful attempt, writes no file on a failed
\* attempt, and after the last failed attempt raises that attempt's exception
C29_Original_NoFileOnFailedAttempt ==
    FetchDone /\ fetch.fn = "download_url" =>
        /\ Len(fetch.res.log) <= fetch.tries
        /\ \A i \in DOMAIN fetch.res.log :
              /\ fetch.res.log[i].saved => i = Len(fetch.res.log) /\ fetch.res.returned
              /\ ~fetch.res.log[i].saved => fetch.res.log[i].dir = DirBefore(i)
        /\ fetch.res.returned =>
              /\ fetch.res.log # <<>>
              /\ fetch.res.log[Len(fetch.res.log)].saved
              /\ fetch.res.path \in fetch.res.dir
        /\ ~fetch.res.returned /\ fetch.tries > 0 =>
              /\ Len(fetch.res.log) = fetch.tries
              /\ fetch.res.exc = fetch.res.log[fetch.tries].exc


-----------------------------------------------------------------------------
(* Claims about the year of a long table, checked under SpecProcess *)

\* the rows of a long table (state, year, value) whose time cell holds a run
\* of four digits and whose value is a number
DatedRows(t) ==
    {r \in DOMAIN t.rows :
        /\ ~IsNa(t.rows[r][2])
        /\ FirstFourDigits(StrOfCell(t.rows[r][2])) # <<>>
        /\ ~IsNa(ToNumericCell(t.rows[r][3]))}
\* the year the first run of four digits of a time cell spells
ExtractedYear(c) == Num(R(DigitsToInt(FirstFourDigits(StrOfCell(c)))))

\* C24 as stated: of a long table, exactly the rows whose time cell holds a
\* run of four digits are written (given a value), each with the year its
\* first run of four digits spells
C24_Original_LongYearIsFirstFourDigits ==
    /\ ProcessDone
    /\ Len(rawDir) = 1
    /\ rawDir[1].readable
    /\ rawDir[1].table.cols = LabelsOf(LongLayout)
    => LET t == rawDir[1].table
       IN  /\ processed.wrote <=> DatedRows(t) # {}
           /\ processed.wrote =>
                 /\ Len(Written) = Cardinality(DatedRows(t))
                 /\ \A r \in DatedRows(t) :
                       \E x \in DOMAIN Written :
                           YearOf(Written[x]) = ExtractedYear(t.rows[r][2])


-----------------------------------------------------------------------------
(* Claims about serve_forecasts.api_forecast, checked under SpecServe *)

ServeDone == served.phase = "done"
\* the request found a readable file with a year and a value column
ServedFromFile ==
    /\ ServeDone
    /\ served.resp.fname \in DOMAIN served.dir
    /\ served.dir[served.resp.fname].readable
    /\ \E i, j \in DOMAIN served.dir[served.resp.fname].table.cols :
          /\ Lower(Strip(served.dir[served.resp.fname].table.cols[i])) = YearCol
          /\ Lower(Strip(served.dir[served.resp.fname].table.cols[j])) = ValueCol
ServedTable == served.dir[served.resp.fname].table
\* the column of the file whose label reads name once stripped and lower-cased
ColAt(name) == CHOOSE i \in DOMAIN ServedTable.cols : Lower(Strip(ServedTable.cols[i])) = name
HasTypeCol == \E i \in DOMAIN ServedTable.cols : Lower(Strip(ServedTable.cols[i])) = TypeCol
YearAt(r) == ToNumericCell(ServedTable.rows[r][ColAt(YearCol)])
ValueAt(r) == ToNumericCell(ServedTable.rows[r][ColAt(ValueCol)])
TypeAt(r) == IF HasTypeCol THEN TypeStr(ServedTable.rows[r][ColAt(TypeCol)]) ELSE <<>>
\* the rows of the file whose year and value are numbers
NumericRows == {r \in DOMAIN ServedTable.rows : ~IsNa(YearAt(r)) /\ ~IsNa(ValueAt(r))}
\* those of them whose year is finite
FiniteYearRows == {r \in NumericRows : IsFinite(YearAt(r).v)}
RecAt(r) == Rec(Trunc(YearAt(r).v), ValueAt(r).v, Strip(TypeAt(r)))
Answer == served.resp.history \o served.resp.forecast
Ascending(recs) == \A x, y \in DOMAIN recs : x < y => recs[x].year <= recs[y].year

\* C25 as stated: the response holds every row whose year and value are
\* numeric exactly once and no other row, a row being in 'forecast' iff its
\* type equals 'forecast' case-insensitively and otherwise in 'history', each
\* list in ascending year order
C25_Original_EveryNumericRowOnce ==
    ServedFromFile =>
        /\ Len(Answer) = Cardinality(NumericRows)
        /\ Len(served.resp.forecast)
             = Cardinality({r \in NumericRows : Lower(TypeAt(r)) = ForecastWord})
        /\ Ascending(served.resp.history)
        /\ Ascending(served.resp.forecast)

\* C25, amended: the response holds every row whose year is a finite number
\* and whose value is a number exactly once and no other row, a row being in
\* 'forecast' iff its type, stripped of surrounding blanks, equals 'forecast'
\* case-insensitively and otherwise in 'history', each list in ascending year
\* order; the status is 200 iff some row has a numeric year and value
C25_EveryFiniteYearRowOnce ==
    ServedFromFile =>
        /\ served.resp.status = 200 <=> NumericRows # {}
        /\ Len(Answer) = Cardinality(FiniteYearRows)
        /\ \A r \in FiniteYearRows :
              Cardinality({x \in DOMAIN Answer : Answer[x] = RecAt(r)})
              = Cardinality({q \in FiniteYearRows : RecAt(q) = RecAt(r)})
        /\ \A x \in DOMAIN served.resp.forecast :
              Lower(served.resp.forecast[x].type) = ForecastWord
        /\ \A x \in DOMAIN served.resp.history :
              Lower(served.resp.history[x].type) # ForecastWord
        /\ Ascending(served.resp.history)
        /\ Ascending(served.resp.forecast)

\* a file of three rows was served: its two history rows in year order, the
\* later one first in the file
C25_Witness_ThreeRowsServed ==
    /\ ServedFromFile
    /\ ~served.wrote
    /\ Len(ServedTable.rows) = 3
    /\ served.resp.status = 200
    /\ Len(served.resp.history) = 3
    /\ YearAt(1).v = R(2002)
    /\ YearAt(2).v = R(2001)

\* C26 as stated: the file predict.forecast_state has written for a label is
\* the file api_forecast looks up when that label is requested, so the
\* request finds it
C26_Original_WrittenFileIsFound ==
    ServeDone /\ served.wrote =>
        /\ served.resp.fname = CsvName(served.state, served.aggregate) \o ForecastSuffix
        /\ served.resp.status # 404


-----------------------------------------------------------------------------
(* Claims about the two scenario projectors, checked under SpecScenario *)

\* C27: for a finite base value, build_forecasts_for_value and
\* scenario_forecast_single_value give the same offsets and the same values,
\* whatever the periods, the mode, the rate and the delta; a mode other than
\* "compound" is linear for both
C27_ProjectorsAgree ==
    Projected /\ IsFinite(proj.value) =>
        /\ proj.built.ok
        /\ proj.built.years = [i \in 1..Len(proj.single) |-> proj.single[i][1]]
        /\ proj.built.hist = ValuesOf(proj.single)
        /\ proj.params.mode # "compound" =>
              proj.built.hist =
                  <<proj.value>> \o BuildLinearLoop(proj.value, 1, proj.params.periods,
                                                    proj.params.delta)

\* both projectors were run on base 50 for two periods in a mode that is
\* neither "compound" nor "linear", and added the delta twice
C27_Witness_UnknownModeIsLinear ==
    /\ Projected
    /\ proj.value = R(50)
    /\ proj.params = Params(2, "exponential", Fin(1, 10), R(5))
    /\ proj.built.hist = <<R(50), R(55), R(60)>>
    /\ proj.single = <<(<<0, R(50)>>), (<<1, R(55)>>), (<<2, R(60)>>)>>


\* the answer of api_server.api_forecast for "All States" on the database
\* ingested from the snapshot, with the parameters of the run
AggregateByApi ==
    ApiForecast(BuildNormalizedDf(snap), AllStatesAggregateLabel, snapOut.params.periods,
                snapOut.params.mode, snapOut.params.rate, snapOut.params.delta)

\* C28 as stated: the aggregate series forecast_from_snapshot.run writes (the
\* per-state projections summed per year) has the same yearly values as the
\* projection api_forecast gives for "All States" from the summed base value,
\* in compound and in linear mode, for any number of states
C28_Original_AggregateSameEitherWay ==
    SnapshotRan /\ snapOut.res.exit = "" =>
        /\ AggregateByApi.status = 200
        /\ snapOut.res.agg = AggregateByApi.history \o AggregateByApi.forecast


\* the rows of the database whose state equals the requested state, and those
\* whose state contains it, both case-insensitively, in table order
ExactRows ==
    SelectSeq(BuildNormalizedDf(snap),
              LAMBDA r : Lower(r.state) = Lower(Strip(apiResp.state)))
SubstringRows ==
    SelectSeq(BuildNormalizedDf(snap),
              LAMBDA r : Contains(Lower(Strip(apiResp.state)), Lower(r.state)))
StateRequest ==
    ApiAnswered /\ Lower(Strip(apiResp.state)) \notin ApiAllStatesLabels

\* C30 as stated: api_forecast answers a requested state from the first row
\* that matches it exactly (case-insensitively) when there is one, from the
\* first row whose state contains it when there is none, and with the 404
\* not-found error only when no row matches either way
C30_Original_ExactThenFirstSubstring ==
    StateRequest =>
        /\ ExactRows # <<>> =>
              apiResp.res.status # 404 /\ apiResp.res.label = ExactRows[1].state
        /\ ExactRows = <<>> /\ SubstringRows # <<>> =>
              apiResp.res.status # 404 /\ apiResp.res.label = SubstringRows[1].state
        /\ apiResp.res.status = 404 => ExactRows = <<>> /\ SubstringRows = <<>>

=============================================================================
